---- MODULE Spec2Model ----
(***************************************************************************)
(* Model of mpy-repl-tool ("there"): the raw-REPL transport                *)
(* (src/there/repl_connection.py, MicroPythonReplProtocol), the exec       *)
(* response parser and error classifier, MpyPath.sha256, walk and glob on  *)
(* a remote tree, the streamed write_bytes / read_as_stream, and the       *)
(* MpyPath operations with their stat cache.                               *)
(*                                                                         *)
(* Byte strings and texts are sequences of symbols.  The single-byte       *)
(* symbols are "O", "K", "x" (any other ASCII byte), "EOT" (0x04) and      *)
(* "xFF" (a byte that is not valid UTF-8).  The texts of a traceback       *)
(* use word symbols that stand for the literal they name ("Traceback",     *)
(* "OSError", ": ", "[Errno ", "] ", the digits, "NL" for a line end,      *)
(* "msg" for any other text without digits and line ends).                 *)
(***************************************************************************)
EXTENDS Integers, Sequences, FiniteSets, TLC

VARIABLES
    \* ---- transport (exec_raw on a live link) ----
    pc,         \* thread -> position inside exec_raw
    cur,        \* thread -> the request the thread is executing
    h2b,        \* bytes written to the serial port, not yet read by the board
    boardBuf,   \* program text the board has read and not yet executed
    boardRun,   \* the program the board is executing (or NoRun)
    b2h,        \* response packets on the wire, not yet framed by the reader
    response,   \* MicroPythonReplProtocol.response (queue.Queue)
    nextReq,    \* number of exec calls started so far
    unknown,    \* an exec ended in a timeout and no resynchronisation followed
    returned,   \* request id -> how its exec call ended
    \* ---- one exec call on a given response (parser, classifier) ----
    xPc, xPacket, xTimeout, xRaw, xResult,
    \* ---- MpyPath.sha256 ----
    sPc, sExists, sFile, sHashlib, sBoardH, sPos, sHostH, sFault, sResult,
    \* ---- walk and glob on a remote tree ----
    tPc,        \* "call", then "walked" or "globbed"
    tTree,      \* the remote filesystem: its directories, its files, the
                \* directories that os.listdir refuses to list
    tStart,     \* the directory walk / glob is called on
    tTopdown,   \* walk(topdown=...)
    tPattern,   \* the pattern of glob, split at '/'
    tOut,       \* what walk or glob yielded, in order
    \* ---- write_bytes, stat, read_as_stream on one remote file ----
    ioPc,       \* position in write_bytes / read_as_stream
    ioExists,   \* the remote file exists
    ioFile,     \* its content
    ioCache,    \* _stat_cache of the path object: the cached st_size or NoSize
    ioData,     \* the argument of write_bytes
    ioPos,      \* offset of local_file (writing) or of the remote _f (reading)
    ioN,        \* n_blocks of read_as_stream
    ioBatch,    \* blocks of the last _b(n) not yet yielded
    ioBlocks,   \* blocks the consumer has taken from the generator
    ioStat,     \* st_size returned by stat() after write_bytes, or NoSize
    ioProgs,    \* the programs the board has executed for this path
    ioResult,   \* the exception that ended the operation, or NoExc
    \* ---- MpyPath objects on a remote filesystem ----
    fFs,        \* node -> "none", "file" or "dir": the filesystem of the board
    fPath,      \* path object -> the path it denotes
    fCache,     \* path object -> its _stat_cache
    fLast,      \* the last call: operation, object, arguments, how it ended
    fGone,      \* nodes removed by a successful unlink and not created since, each
                \* with the object unlink was called on
    fRenamed,   \* the objects of the last successful rename, until the next mutation
    \* ---- Sync: a local source tree pushed to / removed from the board ----
    yPc,        \* "call", "run" inside a call, "returned" or "raised"
    ySrc,       \* the local filesystem (never changed by the model)
    yDst,       \* the filesystem of the board
    yOpt,       \* Sync(dry_run, force, no_uhashlib)
    yCall,      \* the call in progress: method, arguments, how often it was made,
                \* the counter and the board's filesystem when it started
    yPlan,      \* the steps of the call still to be made
    yCount,     \* user.file_counter
    yLog,       \* the mkdir, write_bytes, unlink and rmdir calls made on remote
                \* paths, each with the filesystem it met
    \* ---- read_rtc / set_rtc: the subsecond field of the board's RTC ----
    rPc,        \* "start", or the method called last: "set" or "read"
    rBoard,     \* subsecond of pyb.RTC().datetime(): 1/256 s, counting down
    rTime,      \* microsecond of the board_time of the last set_rtc, or -1
    rRead,      \* microsecond of the datetime read_rtc returned last, or -1
    \* ---- string_escape: escaped and unescape on one text ----
    ePc,        \* "text", "escaped", "unescaped"
    eText,      \* the text, a sequence of code points
    eEscaped,   \* escaped(text)
    eResult,    \* how unescape(escaped(text)) ended
    \* ---- MicroPythonReplProtocol: framing of the bytes read from the port ----
    kStream,    \* the bytes the board sends
    kRead,      \* how many of them the reader thread has passed to data_received
    kBuffer,    \* self.buffer
    kQueue,     \* self.response
    \* ---- MicroPythonRepl.stop and close, the reader thread, the terminal ----
    kPc,        \* where the host is: running, in stop or close, stopped, closed
    kAlive,     \* the reader thread runs
    kPort,      \* the serial port: "open" or "closed"
    kSent,      \* the bytes stop / close wrote to the port
    kTerm,      \* how many bytes of the stream the terminal has read
    \* ---- MpyPath.stat(fake_attrs) on one path object ----
    aBoard,     \* what os.stat prints on the board for the path, or NoRecord
    aHost,      \* os.getuid() and os.getgid() of the host process
    aCache,     \* _stat_cache of the path object
    aLast,      \* the last call on the object and what it returned
    \* ---- ReplFileTransfer (fuse_drive.py) ----
    uRemote,    \* path -> content of the remote file, or NoFile
    uFiles,     \* self.files: handle -> FileBuffer
    uCounter,   \* self.handle_counter
    uWrites     \* the write_bytes calls of flush and fsync: the path written
                \* and the path of the buffer

linkVars == <<pc, cur, h2b, boardBuf, boardRun, b2h, response, nextReq, unknown, returned>>
execVars == <<xPc, xPacket, xTimeout, xRaw, xResult>>
shaVars  == <<sPc, sExists, sFile, sHashlib, sBoardH, sPos, sHostH, sFault, sResult>>
treeVars == <<tPc, tTree, tStart, tTopdown, tPattern, tOut>>
\* the groups of the specifications that follow the first three
ioVars == <<ioPc, ioExists, ioFile, ioCache, ioData, ioPos, ioN, ioBatch, ioBlocks, ioStat,
           ioProgs, ioResult>>
fsVars == <<fFs, fPath, fCache, fLast, fGone, fRenamed>>
syncVars == <<yPc, ySrc, yDst, yOpt, yCall, yPlan, yCount, yLog>>
rtcVars == <<rPc, rBoard, rTime, rRead>>
escVars == <<ePc, eText, eEscaped, eResult>>
framerVars == <<kStream, kRead, kBuffer, kQueue, kPc, kAlive, kPort, kSent, kTerm>>
attrVars == <<aBoard, aHost, aCache, aLast>>
fuseVars == <<uRemote, uFiles, uCounter, uWrites>>
lastVars == <<attrVars, fuseVars>>
lateVars == <<syncVars, rtcVars, escVars, framerVars, lastVars>>
earlyVars == <<linkVars, execVars, shaVars, treeVars, ioVars, fsVars>>
moreVars == <<treeVars, ioVars, fsVars, lateVars>>
vars == <<linkVars, execVars, shaVars, moreVars>>

-----------------------------------------------------------------------------
(* Bounds *)

\* exec calls per behaviour of the transport
MaxReq == 2
\* longest response packet enumerated symbol by symbol
MaxPacketLen == 4
\* longest errno digit string in an enumerated traceback
MaxDigits == 2
\* longest remote file, in bytes
MaxFileLen == 5
\* bytes per block of a streamed read or of the on-board hash loop
\* (512 in the source, scaled down)
BlockSize == 2
\* blocks per batch of a streamed read (max(1, baudrate // 5120) in the source)
NBlocks == 1

-----------------------------------------------------------------------------
(* Sequences *)

RECURSIVE SeqsUpTo(_, _)
SeqsUpTo(S, n) ==
    IF n = 0 THEN {<<>>}
    ELSE LET shorter == SeqsUpTo(S, n - 1)
         IN  shorter \cup {Append(s, x) : s \in {t \in shorter : Len(t) = n - 1}, x \in S}

Drop(s, n) == SubSeq(s, n + 1, Len(s))

StartsWith(s, p) == Len(s) >= Len(p) /\ SubSeq(s, 1, Len(p)) = p

\* Python: p in s, for byte strings
Contains(s, p) == \E i \in 0..(Len(s) - Len(p)) : SubSeq(s, i + 1, i + Len(p)) = p

\* Python: s.split(sep) for a one-symbol separator
RECURSIVE Split(_, _)
Split(s, sep) ==
    IF \A i \in 1..Len(s) : s[i] # sep THEN <<s>>
    ELSE LET i == CHOOSE k \in 1..Len(s) : s[k] = sep /\ \A j \in 1..(k - 1) : s[j] # sep
         IN  <<SubSeq(s, 1, i - 1)>> \o Split(Drop(s, i), sep)

\* Python: text.splitlines(); no empty last line after a final line end
SplitLines(text) ==
    IF text = <<>> THEN <<>>
    ELSE LET parts == Split(text, "NL")
         IN  IF parts[Len(parts)] = <<>> THEN SubSeq(parts, 1, Len(parts) - 1) ELSE parts

-----------------------------------------------------------------------------
(* Exceptions and results of exec_raw / exec *)

NoErrno == -1
NoExc == [type |-> "none", errno |-> NoErrno, msg |-> <<>>]
Exc(type, errno, msg) == [type |-> type, errno |-> errno, msg |-> msg]

\* IOError is OSError; the typed file errors are subclasses of OSError
OSErrorTypes == {"OSError", "FileNotFoundError", "PermissionError", "FileExistsError",
                 "ProcessLookupError", "ChildProcessError", "BlockingIOError",
                 "NotADirectoryError", "IsADirectoryError", "BrokenPipeError"}
IsOSError(e) == e.type \in OSErrorTypes

Timeout      == Exc("OSError", NoErrno, <<"timeout">>)
DesyncError  == Exc("OSError", NoErrno, <<"CTRL-D missing in response">>)
NotAccepted  == Exc("OSError", NoErrno, <<"data was not accepted">>)
ExecFailed   == Exc("OSError", NoErrno, <<"execution failed">>)
DecodeError  == Exc("UnicodeDecodeError", NoErrno, <<>>)

Return(out, err) == [kind |-> "return", out |-> out, err |-> err, exc |-> NoExc]
Raise(e)         == [kind |-> "raise", out |-> <<>>, err |-> <<>>, exc |-> e]
NoResult         == [kind |-> "none", out |-> <<>>, err |-> <<>>, exc |-> NoExc]

NoPacket == <<"(no packet)">>

-----------------------------------------------------------------------------
(* exec_raw, from the moment the response queue answered *)

IsValidUtf8(s) == \A i \in 1..Len(s) : s[i] # "xFF"

\* exec_raw on `data`, the packet response.get() returned, or NoPacket when
\* it raised queue.Empty; timeout = 0 never looks at the queue
ExecRawOn(data, timeout) ==
    IF timeout = 0 THEN Return(<<>>, <<>>)
    ELSE IF data = NoPacket THEN Raise(Timeout)
    ELSE LET parts == Split(data, "EOT")
         IN  IF Len(parts) # 2 THEN Raise(DesyncError)
             ELSE LET out == parts[1]
                      err == parts[2]
                  IN  IF ~Contains(out, <<"O", "K">>) THEN Raise(NotAccepted)
                      ELSE IF ~IsValidUtf8(Drop(out, 2)) \/ ~IsValidUtf8(err)
                           THEN Raise(DecodeError)
                      ELSE Return(Drop(out, 2), err)

-----------------------------------------------------------------------------
(* _parse_error *)

Digits == {"0", "1", "2", "3", "7", "9"}
DigitValue(d) ==
    CASE d = "0" -> 0 [] d = "1" -> 1 [] d = "2" -> 2
      [] d = "3" -> 3 [] d = "7" -> 7 [] d = "9" -> 9

\* Python: int(digits)
RECURSIVE DecimalValue(_)
DecimalValue(ds) ==
    IF ds = <<>> THEN 0
    ELSE 10 * DecimalValue(SubSeq(ds, 1, Len(ds) - 1)) + DigitValue(ds[Len(ds)])

\* the longest run of digits at the head of s
RECURSIVE DigitRun(_)
DigitRun(s) ==
    IF s # <<>> /\ s[1] \in Digits THEN <<s[1]>> \o DigitRun(Tail(s)) ELSE <<>>

\* re_oserror.match(line).group(2), or <<>> when the line does not match:
\* 'OSError: (\[Errno )?(\d+)(\] )?' anchored at the start of the line
ReOsError(line) ==
    IF ~StartsWith(line, <<"OSError", ": ">>) THEN <<>>
    ELSE LET rest == Drop(line, 2)
         IN  IF rest # <<>> /\ rest[1] = "[Errno " /\ DigitRun(Tail(rest)) # <<>>
             THEN DigitRun(Tail(rest))
             ELSE DigitRun(rest)

ExceptionNames == {"ValueError", "KeyError", "ImportError"}

\* re_exceptions.match(line): '(ValueError|KeyError|ImportError): (.*)'
ReExceptions(line) ==
    Len(line) >= 2 /\ line[1] \in ExceptionNames /\ line[2] = ": "

\* Python: OSError(errno, msg) constructs the subclass that belongs to errno
PyOSError(errno, msg) ==
    Exc(CASE errno \in {1, 13} -> "PermissionError"
          [] errno = 2  -> "FileNotFoundError"
          [] errno = 3  -> "ProcessLookupError"
          [] errno = 10 -> "ChildProcessError"
          [] errno = 11 -> "BlockingIOError"
          [] errno = 17 -> "FileExistsError"
          [] errno = 20 -> "NotADirectoryError"
          [] errno = 21 -> "IsADirectoryError"
          [] errno = 32 -> "BrokenPipeError"
          [] OTHER -> "OSError",
        errno, msg)

\* OsErrorFor with the branch of errno 17 raising what the branch of 13 raises
OsErrorForCopied(err_num) ==
    IF err_num = 2 THEN Exc("FileNotFoundError", 2, <<"File not found">>)
    ELSE IF err_num \in {13, 17} THEN Exc("PermissionError", 13, <<"Permission Error">>)
    ELSE IF err_num = 19 THEN PyOSError(err_num, <<"No Such Device Error">>)
    ELSE IF err_num # 0 THEN PyOSError(err_num, <<"OSError">>)
    ELSE NoExc

\* the branch on err_num of _parse_error; NoExc when no branch raises
OsErrorFor(err_num) ==
    IF err_num = 2 THEN Exc("FileNotFoundError", 2, <<"File not found">>)
    ELSE IF err_num = 13 THEN Exc("PermissionError", 13, <<"Permission Error">>)
    ELSE IF err_num = 17 THEN Exc("FileExistsError", 17, <<"File Already Exists Error">>)
    ELSE IF err_num = 19 THEN PyOSError(err_num, <<"No Such Device Error">>)
    ELSE IF err_num # 0 THEN PyOSError(err_num, <<"OSError">>)
    ELSE NoExc

\* _parse_error on the last line of a traceback, os being what the branch on
\* a match of re_oserror raises: that, or what a match of re_exceptions raises
ParseLast(last, os) ==
    IF os # NoExc THEN os
    ELSE IF ReExceptions(last) THEN Exc(last[1], NoErrno, Drop(last, 2))
    ELSE NoExc

\* _parse_error on the last line, digits being group 2 of re_oserror.match
ParseLine(last, digits) ==
    ParseLast(last, IF digits # <<>> THEN OsErrorFor(DecimalValue(digits)) ELSE NoExc)

\* _parse_error on the lines of the text
ParseLines(lines) ==
    IF lines = <<>> THEN Exc("IndexError", NoErrno, <<>>)
    ELSE IF ~StartsWith(lines[1], <<"Traceback">>) THEN NoExc
    ELSE ParseLine(lines[Len(lines)], ReOsError(lines[Len(lines)]))

\* _parse_error(text): the exception it raises, NoExc when it returns
ParseError(text) == ParseLines(SplitLines(text))

-----------------------------------------------------------------------------
(* exec *)

\* ExecOutcome without the raise that follows the call of _parse_error
ExecOutcomeNoRaise(raw) ==
    IF raw.kind = "raise" THEN raw
    ELSE IF raw.err # <<>> /\ ParseError(raw.err) # NoExc THEN Raise(ParseError(raw.err))
    ELSE Return(raw.out, <<>>)

\* what exec does with the (out, err) exec_raw returned
ExecOutcome(raw) ==
    IF raw.kind = "raise" THEN raw
    ELSE IF raw.err # <<>>
         THEN IF ParseError(raw.err) # NoExc THEN Raise(ParseError(raw.err))
              ELSE Raise(ExecFailed)
    ELSE Return(raw.out, <<>>)

ExecOn(data, timeout) == ExecOutcome(ExecRawOn(data, timeout))

-----------------------------------------------------------------------------
(* One exec call on an enumerated response: SpecExec *)

Bytes == {"O", "K", "x", "EOT", "xFF"}
Timeouts == {0, 3}

BytePackets == SeqsUpTo(Bytes, MaxPacketLen)

ErrnoTexts == SeqsUpTo(Digits, MaxDigits) \ {<<>>}

FirstLines == {<<>>, <<"Traceback", "msg", "NL">>, <<"msg", "NL">>,
               <<"Traceback", "msg", "NL", "msg", "NL">>}

LastLines ==
    {<<"OSError", ": ", "[Errno ">> \o n \o <<"] ", "msg">> : n \in ErrnoTexts}
    \cup {<<"OSError", ": ">> \o n : n \in ErrnoTexts}
    \cup {<<"OSError", ": ", "[Errno ">> \o n : n \in ErrnoTexts}
    \cup {<<e, ": ", "msg">> : e \in ExceptionNames \cup {"NameError", "OSError"}}
    \cup {<<"msg">>, <<"Traceback", "msg">>, <<"msg", "OSError", ": ", "2">>}

ErrTexts ==
    {f \o l \o nl : f \in FirstLines, l \in LastLines, nl \in {<<>>, <<"NL">>}}

TracebackPackets ==
    {<<"O", "K">> \o out \o <<"EOT">> \o err : out \in {<<>>, <<"x">>}, err \in ErrTexts}

ExecInputs == BytePackets \cup TracebackPackets \cup {NoPacket}

linkIdle ==
    /\ pc = <<>> /\ cur = <<>>
    /\ h2b = <<>> /\ boardBuf = <<>> /\ boardRun = <<>> /\ b2h = <<>>
    /\ response = <<>> /\ nextReq = 0 /\ unknown = FALSE
    /\ returned = <<>>

execIdle ==
    /\ xPc = "off" /\ xPacket = NoPacket /\ xTimeout = 0
    /\ xRaw = NoResult /\ xResult = NoResult

shaIdle ==
    /\ sPc = "off" /\ sExists = FALSE /\ sFile = <<>> /\ sHashlib = FALSE
    /\ sBoardH = 0 /\ sPos = 0 /\ sHostH = 0 /\ sFault = NoExc /\ sResult = NoResult

treeIdle ==
    /\ tPc = "off" /\ tTree = [dirs |-> {}, files |-> {}, unreadable |-> {}] /\ tStart = <<>>
    /\ tTopdown = TRUE /\ tPattern = <<>> /\ tOut = <<>>

ioIdle ==
    /\ ioPc = "off" /\ ioExists = FALSE /\ ioFile = <<>> /\ ioCache = -1 /\ ioData = <<>>
    /\ ioPos = 0 /\ ioN = 0 /\ ioBatch = <<>> /\ ioBlocks = <<>> /\ ioStat = -1
    /\ ioProgs = <<>> /\ ioResult = NoExc

fsIdle ==
    /\ fFs = <<>> /\ fPath = <<>> /\ fCache = <<>> /\ fLast = <<>> /\ fGone = {}
    /\ fRenamed = <<>>

syncIdle ==
    /\ yPc = "off" /\ ySrc = <<>> /\ yDst = <<>> /\ yOpt = <<>> /\ yCall = <<>>
    /\ yPlan = <<>> /\ yCount = <<>> /\ yLog = <<>>

rtcIdle == rPc = "off" /\ rBoard = 0 /\ rTime = -1 /\ rRead = -1

escIdle == ePc = "off" /\ eText = <<>> /\ eEscaped = <<>> /\ eResult = <<>>

framerIdle ==
    /\ kStream = <<>> /\ kRead = 0 /\ kBuffer = <<>> /\ kQueue = <<>>
    /\ kPc = <<>> /\ kAlive = FALSE /\ kPort = "closed" /\ kSent = <<>> /\ kTerm = 0

attrIdle == aBoard = <<>> /\ aHost = <<>> /\ aCache = <<>> /\ aLast = <<>>

fuseIdle == uRemote = <<>> /\ uFiles = <<>> /\ uCounter = 0 /\ uWrites = {}

lastIdle == attrIdle /\ fuseIdle

lateIdle == syncIdle /\ rtcIdle /\ escIdle /\ framerIdle /\ lastIdle

moreIdle == treeIdle /\ ioIdle /\ fsIdle /\ lateIdle

earlyIdle == linkIdle /\ execIdle /\ shaIdle /\ treeIdle /\ ioIdle /\ fsIdle

InitExec ==
    /\ xPc = "call"
    /\ xPacket \in ExecInputs
    /\ xTimeout \in Timeouts
    /\ xRaw = NoResult /\ xResult = NoResult
    /\ linkIdle /\ shaIdle /\ moreIdle

\* MicroPythonReplProtocol.exec: exec_raw, then the check of stderr
ExecCall ==
    /\ xPc = "call"
    /\ xRaw' = ExecRawOn(xPacket, xTimeout)
    /\ xResult' = ExecOutcome(xRaw')
    /\ xPc' = "done"
    /\ UNCHANGED <<xPacket, xTimeout, linkVars, shaVars, moreVars>>

NextExec == ExecCall

SpecExec == InitExec /\ [][NextExec]_vars

-----------------------------------------------------------------------------
(* Claims about exec_raw, exec and _parse_error (SpecExec) *)

HasEOT(data) == \E i \in 1..Len(data) : data[i] = "EOT"

FirstEOT(data) == CHOOSE k \in 1..Len(data) : data[k] = "EOT" /\ \A j \in 1..(k - 1) : data[j] # "EOT"

\* the response grammar: stdout payload, 0x04, stderr payload
StdoutPart(data) == IF HasEOT(data) THEN SubSeq(data, 1, FirstEOT(data) - 1) ELSE data
StderrPart(data) == IF HasEOT(data) THEN Drop(data, FirstEOT(data)) ELSE <<>>

\* an exec call that waited for a response and got one
Answered == xPc = "done" /\ xTimeout # 0 /\ xPacket # NoPacket

\* C5: exec_raw raises the missing-separator error for exactly the packets
\* without a 0x04 byte, and whenever it returns, the stderr it returns is
\* everything after the first 0x04 byte and the stdout came from the bytes
\* before it.
C5_SplitAtFirstSeparator ==
    Answered =>
        /\ (xRaw = Raise(DesyncError)) <=> ~HasEOT(xPacket)
        /\ xRaw.kind = "return" =>
              /\ xRaw.err = StderrPart(xPacket)
              /\ xRaw.out = Drop(StdoutPart(xPacket), 2)

\* C6: whenever exec_raw returns, the stdout payload began with the bytes
\* 'OK' and the stdout returned is the payload without them; a packet with one
\* separator whose stdout payload does not begin with 'OK' is rejected as
\* not accepted.
C6_OnlyOKStripped ==
    Answered =>
        /\ xRaw.kind = "return" =>
              /\ StartsWith(StdoutPart(xPacket), <<"O", "K">>)
              /\ <<"O", "K">> \o xRaw.out = StdoutPart(xPacket)
        /\ (Len(Split(xPacket, "EOT")) = 2 /\ ~StartsWith(StdoutPart(xPacket), <<"O", "K">>))
              => xRaw = Raise(NotAccepted)

\* C7: exec returns (the stdout exec_raw produced) exactly when the stderr
\* part of the response is empty; on every non-empty stderr part, recognized
\* by the classifier or not, exec raises.
C7_ReturnsIffStderrEmpty ==
    Answered =>
        /\ StderrPart(xPacket) # <<>> => xResult.kind = "raise"
        /\ xRaw.kind = "return" =>
              /\ (xResult.kind = "return") <=> (StderrPart(xPacket) = <<>>)
              /\ xResult.kind = "return" => xResult = Return(xRaw.out, <<>>)

\* a stderr the classifier does not recognize made exec raise the generic error
C7_Witness ==
    /\ Answered /\ xRaw.kind = "return"
    /\ StderrPart(xPacket) = <<"msg", "NL", "NameError", ": ", "msg">>
    /\ xResult = Raise(ExecFailed)

\* the last line of the text is 'OSError: [Errno n] ...' or 'OSError: n'
LastLineHasErrno(text, n) ==
    LET lines == SplitLines(text)
        last  == lines[Len(lines)]
    IN  /\ lines # <<>>
        /\ \/ last = <<"OSError", ": ">> \o n
           \/ StartsWith(last, <<"OSError", ": ", "[Errno ">> \o n \o <<"] ">>)

\* an OSError carrying errno N, of the typed kind for 2, 13, 17 and 19
IsErrorOfErrno(r, N) ==
    /\ r.kind = "raise" /\ IsOSError(r.exc) /\ r.exc.errno = N
    /\ N = 2  => r.exc.type = "FileNotFoundError"
    /\ N = 13 => r.exc.type = "PermissionError"
    /\ N = 17 => r.exc.type = "FileExistsError"
    /\ N = 19 => r.exc.type = "OSError"

\* exec got a traceback whose last line names errno n
TracebackWithErrno(n) ==
    /\ Answered /\ xRaw.kind = "return"
    /\ StartsWith(xRaw.err, <<"Traceback">>)
    /\ LastLineHasErrno(xRaw.err, n)

\* C8 as claimed: for every decimal N >= 0, 0 included, the error raised is
\* the OSError (or typed subclass) carrying errno N.
C8_EveryErrnoMapped ==
    \A n \in ErrnoTexts :
        TracebackWithErrno(n) => IsErrorOfErrno(xResult, DecimalValue(n))

\* C8 amended: the error is determined by N; for N > 0 it is the OSError (or
\* typed subclass) carrying errno N, for N = 0 it is the generic
\* 'execution failed' IOError, which carries no errno.
C8_ErrnoMappedAboveZero ==
    \A n \in ErrnoTexts :
        TracebackWithErrno(n) =>
            IF DecimalValue(n) = 0 THEN xResult = Raise(ExecFailed)
            ELSE IsErrorOfErrno(xResult, DecimalValue(n))

\* 'OSError: [Errno 17] ...' raised FileExistsError
C8_Witness ==
    /\ TracebackWithErrno(<<"1", "7">>)
    /\ xResult.kind = "raise" /\ xResult.exc.type = "FileExistsError"
    /\ xResult.exc.errno = 17

-----------------------------------------------------------------------------
(* The transport on a live link: Spec *)

Threads == {"t1", "t2"}
ReqIds == 1..MaxReq

Prog(id)  == [k |-> "prog", id |-> id]
Eot(id)   == [k |-> "eot", id |-> id]
CtrlC     == [k |-> "ctrlc", id |-> 0]

\* what a program run to its end prints: 'OK', stdout, 0x04, stderr
BoardOutputs == {<<"O", "K", "x", "EOT">>,
                 <<"O", "K", "EOT", "Traceback", "msg", "NL", "NameError", ": ", "msg">>}
\* what an interrupted program prints
InterruptedOutput == <<"O", "K", "EOT", "Traceback", "msg", "NL", "KeyboardInterrupt", ": ">>

Packet(run, data) == [eot |-> run.eot, prog |-> run.prog, data |-> data]

\* how an exec call ended: its result, the request whose response packet it
\* took from the queue (0: none) and the length of the queue when it ended
NotReturned == [res |-> NoResult, from |-> 0, qlen |-> 0]
Ended(res, from, qlen) == [res |-> res, from |-> from, qlen |-> qlen]

Init ==
    /\ pc = [t \in Threads |-> "idle"]
    /\ cur = [t \in Threads |-> [id |-> 0, timeout |-> 0]]
    /\ h2b = <<>> /\ boardBuf = <<>> /\ boardRun = <<>> /\ b2h = <<>>
    /\ response = <<>>
    /\ nextReq = 0
    /\ unknown = FALSE
    /\ returned = [i \in ReqIds |-> NotReturned]
    /\ execIdle /\ shaIdle /\ moreIdle

\* exec_raw: self.transport.write(string.encode('utf-8'))
ExecWrite(t, timeout) ==
    /\ pc[t] = "idle" /\ nextReq < MaxReq
    /\ nextReq' = nextReq + 1
    /\ cur' = [cur EXCEPT ![t] = [id |-> nextReq + 1, timeout |-> timeout]]
    /\ h2b' = Append(h2b, Prog(nextReq + 1))
    /\ pc' = [pc EXCEPT ![t] = "wrote"]
    /\ UNCHANGED <<boardBuf, boardRun, b2h, response, unknown, returned>>

\* exec_raw: while self.response.qsize(): self.response.get_nowait()
ExecDrain(t) ==
    /\ pc[t] = "wrote"
    /\ response' = <<>>
    /\ pc' = [pc EXCEPT ![t] = "drained"]
    /\ UNCHANGED <<cur, h2b, boardBuf, boardRun, b2h, nextReq, unknown, returned>>

\* exec_raw: self.transport.write(b'\x04'); with timeout = 0 the call returns
\* ('', '') at once
ExecSend(t) ==
    /\ pc[t] = "drained"
    /\ h2b' = Append(h2b, Eot(cur[t].id))
    /\ IF cur[t].timeout = 0
       THEN /\ pc' = [pc EXCEPT ![t] = "idle"]
            /\ returned' = [returned EXCEPT ![cur[t].id] =
                                Ended(ExecOn(NoPacket, 0), 0, Len(response))]
       ELSE /\ pc' = [pc EXCEPT ![t] = "wait"]
            /\ UNCHANGED returned
    /\ UNCHANGED <<cur, boardBuf, boardRun, b2h, response, nextReq, unknown>>

\* exec_raw: data = self.response.get(timeout=timeout) got a packet; the rest
\* of exec_raw and of exec follows
ExecGet(t) ==
    /\ pc[t] \in {"wait", "wait2"}
    /\ response # <<>>
    /\ response' = Tail(response)
    /\ returned' = [returned EXCEPT ![cur[t].id] =
                        Ended(ExecOn(Head(response).data, cur[t].timeout),
                              Head(response).eot, Len(response) - 1)]
    /\ pc' = [pc EXCEPT ![t] = "idle"]
    /\ UNCHANGED <<cur, h2b, boardBuf, boardRun, b2h, nextReq, unknown>>

\* exec_raw: response.get raised queue.Empty: raise IOError('timeout')
ExecTimeout(t) ==
    /\ pc[t] \in {"wait", "wait2"}
    /\ response = <<>>
    /\ returned' = [returned EXCEPT ![cur[t].id] =
                        Ended(ExecOn(NoPacket, cur[t].timeout), 0, 0)]
    /\ unknown' = TRUE
    /\ pc' = [pc EXCEPT ![t] = "idle"]
    /\ UNCHANGED <<cur, h2b, boardBuf, boardRun, b2h, response, nextReq>>

\* an interrupt that is forwarded as two CTRL+C bytes
ExecKeyboardInterruptTwice(t) ==
    /\ pc[t] = "wait"
    /\ h2b' = h2b \o <<CtrlC, CtrlC>>
    /\ pc' = [pc EXCEPT ![t] = "wait2"]
    /\ UNCHANGED <<cur, boardBuf, boardRun, b2h, response, nextReq, unknown, returned>>

\* exec_raw: KeyboardInterrupt while waiting: write CTRL+C, wait once more
ExecKeyboardInterrupt(t) ==
    /\ pc[t] = "wait"
    /\ h2b' = Append(h2b, CtrlC)
    /\ pc' = [pc EXCEPT ![t] = "wait2"]
    /\ UNCHANGED <<cur, boardBuf, boardRun, b2h, response, nextReq, unknown, returned>>

\* the board's raw REPL reads its input while no program runs: program text
\* is collected, 0x04 runs what was collected, CTRL-C clears it
BoardRead ==
    /\ boardRun = <<>> /\ h2b # <<>>
    /\ h2b' = Tail(h2b)
    /\ CASE Head(h2b).k = "prog" ->
              /\ boardBuf' = Append(boardBuf, Head(h2b).id)
              /\ UNCHANGED boardRun
         [] Head(h2b).k = "eot" ->
              /\ boardRun' = <<[eot |-> Head(h2b).id, prog |-> boardBuf]>>
              /\ boardBuf' = <<>>
         [] Head(h2b).k = "ctrlc" ->
              /\ boardBuf' = <<>>
              /\ UNCHANGED boardRun
    /\ UNCHANGED <<pc, cur, b2h, response, nextReq, unknown, returned>>

\* the running program ends; the board prints its response and '\x04>'
BoardFinish ==
    /\ boardRun # <<>>
    /\ \E data \in BoardOutputs : b2h' = Append(b2h, Packet(boardRun[1], data))
    /\ boardRun' = <<>>
    /\ UNCHANGED <<pc, cur, h2b, boardBuf, response, nextReq, unknown, returned>>

\* a CTRL-C that arrives while a program runs interrupts it
BoardInterrupt ==
    /\ boardRun # <<>>
    /\ \E i \in 1..Len(h2b) :
          /\ h2b[i].k = "ctrlc"
          /\ \A j \in 1..(i - 1) : h2b[j].k # "ctrlc"
          /\ h2b' = SubSeq(h2b, 1, i - 1) \o Drop(h2b, i)
    /\ b2h' = Append(b2h, Packet(boardRun[1], InterruptedOutput))
    /\ boardRun' = <<>>
    /\ UNCHANGED <<pc, cur, boardBuf, response, nextReq, unknown, returned>>

\* the reader thread framed one packet: handle_packet puts it on the queue
HandlePacket ==
    /\ b2h # <<>>
    /\ response' = Append(response, Head(b2h))
    /\ b2h' = Tail(b2h)
    /\ UNCHANGED <<pc, cur, h2b, boardBuf, boardRun, nextReq, unknown, returned>>

Next ==
    \/ \E t \in Threads, timeout \in Timeouts : ExecWrite(t, timeout) /\ UNCHANGED <<execVars, shaVars, moreVars>>
    \/ \E t \in Threads : ExecDrain(t) /\ UNCHANGED <<execVars, shaVars, moreVars>>
    \/ \E t \in Threads : ExecSend(t) /\ UNCHANGED <<execVars, shaVars, moreVars>>
    \/ \E t \in Threads : ExecGet(t) /\ UNCHANGED <<execVars, shaVars, moreVars>>
    \/ \E t \in Threads : ExecTimeout(t) /\ UNCHANGED <<execVars, shaVars, moreVars>>
    \/ \E t \in Threads : ExecKeyboardInterrupt(t) /\ UNCHANGED <<execVars, shaVars, moreVars>>
    \/ BoardRead /\ UNCHANGED <<execVars, shaVars, moreVars>>
    \/ BoardFinish /\ UNCHANGED <<execVars, shaVars, moreVars>>
    \/ BoardInterrupt /\ UNCHANGED <<execVars, shaVars, moreVars>>
    \/ HandlePacket /\ UNCHANGED <<execVars, shaVars, moreVars>>

Spec == Init /\ [][Next]_vars

-----------------------------------------------------------------------------
(* Claims about the transport (Spec) *)

\* requests whose 0x04 was written and whose response the board has not
\* produced yet
InFlight ==
    {h2b[i].id : i \in {j \in 1..Len(h2b) : h2b[j].k = "eot"}}
    \cup {boardRun[i].eot : i \in 1..Len(boardRun)}

\* threads between the write of the program and the write of its 0x04
Writing == {t \in Threads : pc[t] \in {"wrote", "drained"}}

\* C1: every exec that returns a result it took from the response queue took
\* the packet the board produced for its own request.
C1_ResponseOfOwnRequest ==
    \A id \in ReqIds :
        (returned[id].res.kind = "return" /\ returned[id].from # 0)
            => returned[id].from = id

\* C2: at most one request is in flight at any moment, and the link writes of
\* two threads are never interleaved.
C2_OneRequestInFlight ==
    /\ Cardinality(InFlight) <= 1
    /\ Cardinality(Writing) <= 1

\* C3: when exec has returned successfully the response queue was empty at
\* that moment, and no packet of that request is in the queue afterwards.
C3_ChannelEmptyAfterSuccess ==
    \A id \in ReqIds :
        returned[id].res.kind = "return" =>
            /\ returned[id].qlen = 0
            /\ \A i \in 1..Len(response) : response[i].eot # id

\* C4: once an exec has ended with a timeout the transport stays UNKNOWN and
\* exec writes no further program to the link.
C4_NoExecWhileUnknown ==
    [][unknown => (unknown' /\ nextReq' = nextReq)]_vars

-----------------------------------------------------------------------------
(* MpyPath.sha256 on one remote path: SpecSha *)

FileBytes == {0, 1}

\* hashlib / uhashlib: update(block) on the state h; the digest depends on
\* the bytes fed so far, in order
RECURSIVE HashUpdate(_, _)
HashUpdate(h, block) ==
    IF block = <<>> THEN h
    ELSE HashUpdate((h * 31 + block[1] + 1) % 1009, Tail(block))

HashInit == 0
Digest(content) == HashUpdate(HashInit, content)

\* _f.readinto(_mem) at offset pos: the next block of the file
ReadBlock(content, pos) == SubSeq(content, pos + 1,
                                  IF pos + BlockSize < Len(content) THEN pos + BlockSize
                                  ELSE Len(content))

\* the loop of the hashing program on the board: readinto, update, until
\* readinto returns 0
RECURSIVE BoardHashLoop(_, _, _)
BoardHashLoop(h, content, pos) ==
    IF ReadBlock(content, pos) = <<>> THEN h
    ELSE BoardHashLoop(HashUpdate(h, ReadBlock(content, pos)), content,
                       pos + Len(ReadBlock(content, pos)))

\* a _b(n) that stops at a short block without printing it
RECURSIVE ReadBlocksUntilShort(_, _, _)
ReadBlocksUntilShort(content, pos, n) ==
    IF n = 0 \/ Len(ReadBlock(content, pos)) < BlockSize THEN <<>>
    ELSE <<ReadBlock(content, pos)>>
         \o ReadBlocksUntilShort(content, pos + Len(ReadBlock(content, pos)), n - 1)

\* _b(n) on the board: up to n blocks from the current offset
RECURSIVE ReadBlocks(_, _, _)
ReadBlocks(content, pos, n) ==
    IF n = 0 \/ ReadBlock(content, pos) = <<>> THEN <<>>
    ELSE <<ReadBlock(content, pos)>>
         \o ReadBlocks(content, pos + Len(ReadBlock(content, pos)), n - 1)

RECURSIVE HashBlocks(_, _)
HashBlocks(h, blocks) ==
    IF blocks = <<>> THEN h ELSE HashBlocks(HashUpdate(h, blocks[1]), Tail(blocks))

RECURSIVE TotalLen(_)
TotalLen(blocks) == IF blocks = <<>> THEN 0 ELSE Len(blocks[1]) + TotalLen(Tail(blocks))

\* responses of the board
OkPacket      == <<"O", "K", "x", "EOT">>
TracebackOf(lastLine) == <<"O", "K", "EOT", "Traceback", "msg", "NL">> \o lastLine \o <<"NL">>
ImportErrorPacket == TracebackOf(<<"ImportError", ": ", "msg">>)
EnoentPacket      == TracebackOf(<<"OSError", ": ", "[Errno ", "2", "] ", "msg">>)
\* any other exception of the board (MemoryError, ...)
OtherErrorPacket  == TracebackOf(<<"NameError", ": ", "msg">>)

\* what response.get can deliver instead of the response of the program:
\* nothing in time, a packet without separator, a packet without 'OK', the
\* traceback of an exception the program did not expect
FaultyResponses == {NoPacket, <<"x">>, <<"x", "EOT">>, OtherErrorPacket}

\* the errors of the transport itself
TransportErrors == {Timeout, DesyncError, NotAccepted, ExecFailed}
DefaultTimeout == 3

\* exec of a program whose true response is `packet`
ExecResults(packet) == {ExecOn(data, DefaultTimeout) : data \in {packet} \cup FaultyResponses}

ShaReturn(v) == [kind |-> "return", val |-> v, exc |-> NoExc]
ShaRaise(e)  == [kind |-> "raise", val |-> <<>>, exc |-> e]
ShaNone      == [kind |-> "none", val |-> <<>>, exc |-> NoExc]

\* the first error of the transport raised by an exec of the operation
NoteFault(r) ==
    IF sFault = NoExc /\ r.kind = "raise" /\ r.exc \in TransportErrors THEN r.exc ELSE sFault

InitSha ==
    /\ sPc = "start"
    /\ sExists \in BOOLEAN
    /\ sFile \in (IF sExists THEN SeqsUpTo(FileBytes, MaxFileLen) ELSE {<<>>})
    /\ sHashlib \in BOOLEAN
    /\ sBoardH = 0 /\ sPos = 0 /\ sHostH = 0
    /\ sFault = NoExc /\ sResult = ShaNone
    /\ linkIdle /\ execIdle /\ moreIdle

\* the program sha256 sends first: import uhashlib, open the file, hash it
HashProgramResponse ==
    IF ~sHashlib THEN ImportErrorPacket
    ELSE IF ~sExists THEN EnoentPacket
    ELSE OkPacket

\* sha256: the try block with its except clauses
ShaHashExec ==
    /\ sPc = "start"
    /\ \E r \in ExecResults(HashProgramResponse) :
          /\ sFault' = NoteFault(r)
          /\ IF r.kind = "raise" /\ r.exc.type = "ImportError"
             THEN \* except ImportError: hash on the host
                  /\ sPc' = "stream_setup" /\ sHostH' = HashInit
                  /\ UNCHANGED <<sBoardH, sResult>>
             ELSE IF r.kind = "raise" /\ IsOSError(r.exc)
             THEN \* except OSError: hash_value = b''
                  /\ sPc' = "done" /\ sResult' = ShaReturn(<<>>)
                  /\ UNCHANGED <<sBoardH, sHostH>>
             ELSE IF r.kind = "raise"
             THEN /\ sPc' = "done" /\ sResult' = ShaRaise(r.exc)
                  /\ UNCHANGED <<sBoardH, sHostH>>
             ELSE /\ sPc' = "digest"
                  /\ sBoardH' = BoardHashLoop(HashInit, sFile, 0)
                  /\ UNCHANGED <<sHostH, sResult>>
    /\ UNCHANGED <<sExists, sFile, sHashlib, sPos>>

\* sha256: hash_value = self._repl.evaluate('print(_h.digest()); del _h')
ShaDigestEval ==
    /\ sPc = "digest"
    /\ \E r \in ExecResults(OkPacket) :
          /\ sFault' = NoteFault(r)
          /\ sResult' = IF r.kind = "raise" THEN ShaRaise(r.exc) ELSE ShaReturn(<<sBoardH>>)
    /\ sPc' = "done"
    /\ UNCHANGED <<sExists, sFile, sHashlib, sBoardH, sPos, sHostH>>

\* read_as_stream: the program that opens the file and defines _b
ShaStreamSetup ==
    /\ sPc = "stream_setup"
    /\ \E r \in ExecResults(IF sExists THEN OkPacket ELSE EnoentPacket) :
          /\ sFault' = NoteFault(r)
          /\ IF r.kind = "raise" /\ r.exc.type = "FileNotFoundError"
             THEN \* except FileNotFoundError: return b''
                  /\ sPc' = "done" /\ sResult' = ShaReturn(<<>>) /\ UNCHANGED sPos
             ELSE IF r.kind = "raise"
             THEN /\ sPc' = "done" /\ sResult' = ShaRaise(r.exc) /\ UNCHANGED sPos
             ELSE /\ sPc' = "stream_read" /\ sPos' = 0 /\ UNCHANGED sResult
    /\ UNCHANGED <<sExists, sFile, sHashlib, sBoardH, sHostH>>

\* read_as_stream: blocks = evaluate('_b(n)'); the consumer updates the hash
\* with every block; an empty list ends the loop
ShaStreamRead ==
    /\ sPc = "stream_read"
    /\ \E r \in ExecResults(OkPacket) :
          /\ sFault' = NoteFault(r)
          /\ IF r.kind = "raise"
             THEN /\ sPc' = "done" /\ sResult' = ShaRaise(r.exc)
                  /\ UNCHANGED <<sPos, sHostH>>
             ELSE LET blocks == ReadBlocks(sFile, sPos, NBlocks)
                  IN  /\ sPos' = sPos + TotalLen(blocks)
                      /\ sHostH' = HashBlocks(sHostH, blocks)
                      /\ sPc' = IF blocks = <<>> THEN "stream_close" ELSE "stream_read"
                      /\ UNCHANGED sResult
    /\ UNCHANGED <<sExists, sFile, sHashlib, sBoardH>>

\* read_as_stream: exec('_f.close(); del _f, _b'), then return _h.digest()
ShaStreamClose ==
    /\ sPc = "stream_close"
    /\ \E r \in ExecResults(OkPacket) :
          /\ sFault' = NoteFault(r)
          /\ sResult' = IF r.kind = "raise" THEN ShaRaise(r.exc) ELSE ShaReturn(<<sHostH>>)
    /\ sPc' = "done"
    /\ UNCHANGED <<sExists, sFile, sHashlib, sBoardH, sPos, sHostH>>

NextSha ==
    \/ ShaHashExec /\ UNCHANGED <<linkVars, execVars, moreVars>>
    \/ ShaDigestEval /\ UNCHANGED <<linkVars, execVars, moreVars>>
    \/ ShaStreamSetup /\ UNCHANGED <<linkVars, execVars, moreVars>>
    \/ ShaStreamRead /\ UNCHANGED <<linkVars, execVars, moreVars>>
    \/ ShaStreamClose /\ UNCHANGED <<linkVars, execVars, moreVars>>

SpecSha == InitSha /\ [][NextSha]_vars

-----------------------------------------------------------------------------
(* Claims about sha256 (SpecSha) *)

\* C9: an error of the transport (timeout, missing separator, not accepted,
\* unclassified remote traceback) raised by an exec during sha256 is what
\* sha256 raises.
C9_TransportErrorsSurface ==
    (sPc = "done" /\ sFault # NoExc) => sResult = ShaRaise(sFault)

\* C10: for an existing file, what sha256 returns is the digest of the file
\* content, on the board path and on the host fallback path.
C10_DigestOfContent ==
    (sPc = "done" /\ sExists /\ sResult.kind = "return")
        => sResult.val = <<Digest(sFile)>>

-----------------------------------------------------------------------------
(* The remote tree: walk (src/there/walk.py), MpyPath.iterdir and glob.    *)
(* A name is a sequence of characters, an absolute path the sequence of    *)
(* the names below '/', a pattern the sequence of its '/'-separated parts. *)

\* nodes of the remote filesystem below the root
MaxNodes == 4
\* deepest node of the remote filesystem
MaxDepth == 3

Names == {<<"a">>, <<"a", "b">>}
StarStar == <<"*", "*">>
PatternParts == Names \cup {<<"*">>, StarStar}
Patterns == SeqsUpTo(PatternParts, 3) \ {<<>>}

\* the filesystems the board can hold: every node but the root lies in a directory
RECURSIVE Trees(_)
Trees(n) ==
    IF n = 0 THEN {[dirs |-> {}, files |-> {}, unreadable |-> {}]}
    ELSE LET smaller == Trees(n - 1)
             Free(t) == {Append(d, name) : d \in {e \in t.dirs \cup {<<>>} : Len(e) < MaxDepth},
                                           name \in Names} \ (t.dirs \cup t.files)
         IN  smaller
             \cup UNION {{[t EXCEPT !.dirs = @ \cup {p}] : p \in Free(t)} : t \in smaller}
             \cup UNION {{[t EXCEPT !.files = @ \cup {p}] : p \in Free(t)} : t \in smaller}

\* fnmatch.fnmatchcase on one name; '*' is the only wildcard of the model
RECURSIVE Fnmatch(_, _)
Fnmatch(name, pat) ==
    IF pat = <<>> THEN name = <<>>
    ELSE IF Head(pat) = "*"
         THEN Fnmatch(name, Tail(pat)) \/ (name # <<>> /\ Fnmatch(Tail(name), pat))
         ELSE name # <<>> /\ Head(name) = Head(pat) /\ Fnmatch(Tail(name), Tail(pat))

\* PurePath.match of an absolute path against a relative pattern: the parts
\* of the path, '/' included, are compared with the pattern from the right
PathMatch(path, pat) ==
    LET parts == <<(<<"/">>)>> \o path
    IN  /\ Len(pat) <= Len(parts)
        /\ \A i \in 1..Len(pat) : Fnmatch(parts[Len(parts) - i + 1], pat[Len(pat) - i + 1])

\* MpyPath.iterdir of a directory: one path object per entry of os.listdir,
\* each with the stat of the entry; the board lists in an order of its own
RECURSIVE Listing(_)
Listing(S) ==
    IF S = {} THEN <<>>
    ELSE LET x == CHOOSE y \in S : TRUE IN <<x>> \o Listing(S \ {x})

\* the exception that leaves a generator, as the last item of what it yielded:
\* os.listdir of an unreadable directory fails with errno 13
Raised == <<(<<"PermissionError">>)>>

\* what the consumer of a generator gets: the items up to the exception
RECURSIVE UntilRaised(_, _)
UntilRaised(items, raised) ==
    IF items = <<>> THEN <<>>
    ELSE IF Head(items) = raised THEN <<raised>>
    ELSE <<Head(items)>> \o UntilRaised(Tail(items), raised)

Iterdir(tree, d) ==
    IF d \in tree.unreadable THEN <<Raised>> ELSE
    Listing({p \in tree.dirs \cup tree.files : Len(p) = Len(d) + 1 /\ SubSeq(p, 1, Len(d)) = d})

\* dirpath.iterdir() failed inside walk
WalkRaised == [root |-> Raised, dirs |-> <<>>, files |-> <<>>]

\* walk.walk: the (dirpath, dirnames, filenames) tuples in the order yielded
RECURSIVE WalkDefaultOrder(_, _, _)
WalkDefaultOrder(tree, dirpath, topdown) ==
    LET IsDir(p) == p \in tree.dirs
        IsNoDir(p) == p \notin tree.dirs
        dirnames == SelectSeq(Iterdir(tree, dirpath), IsDir)
        filenames == SelectSeq(Iterdir(tree, dirpath), IsNoDir)
        here == <<[root |-> dirpath, dirs |-> dirnames, files |-> filenames]>>
        RECURSIVE Below(_, _)
        Below(i, td) == IF i > Len(dirnames) THEN <<>>
                        ELSE WalkDefaultOrder(tree, dirnames[i], td) \o Below(i + 1, td)
    IN  IF dirpath \in tree.unreadable THEN <<WalkRaised>>
        ELSE IF topdown THEN here \o Below(1, TRUE) ELSE Below(1, TRUE) \o here

RECURSIVE Walk(_, _, _)
Walk(tree, dirpath, topdown) ==
    LET IsDir(p) == p \in tree.dirs
        IsNoDir(p) == p \notin tree.dirs
        dirnames == SelectSeq(Iterdir(tree, dirpath), IsDir)
        filenames == SelectSeq(Iterdir(tree, dirpath), IsNoDir)
        here == <<[root |-> dirpath, dirs |-> dirnames, files |-> filenames]>>
        RECURSIVE Below(_, _)
        Below(i, td) == IF i > Len(dirnames) THEN <<>>
                        ELSE Walk(tree, dirnames[i], td) \o Below(i + 1, td)
    IN  IF dirpath \in tree.unreadable THEN <<WalkRaised>>
        ELSE IF topdown THEN here \o Below(1, TRUE) ELSE Below(1, FALSE) \o here

\* MpyPath.glob: the paths in the order yielded
RECURSIVE Glob(_, _, _)
Glob(tree, self, parts) ==
    LET IsDir(p) == p \in tree.dirs
        remaining_parts == Tail(parts)
        MatchesPattern(p) == p = Raised \/ PathMatch(p, parts)
        MatchesRemaining(p) == PathMatch(p, remaining_parts)
        walked == Walk(tree, self, TRUE)
        entries == Iterdir(tree, self)
        RECURSIVE Filenames(_)
        Filenames(i) == IF i > Len(walked) THEN <<>>
                        ELSE IF walked[i] = WalkRaised THEN <<Raised>>
                        ELSE SelectSeq(walked[i].files, MatchesRemaining) \o Filenames(i + 1)
        RECURSIVE Descend(_)
        Descend(i) == IF i > Len(entries) THEN <<>>
                      ELSE IF entries[i] = Raised THEN <<Raised>>
                      ELSE (IF IsDir(entries[i]) /\ Fnmatch(entries[i][Len(entries[i])], parts[1])
                            THEN Glob(tree, entries[i], remaining_parts) ELSE <<>>)
                           \o Descend(i + 1)
    IN  IF Len(parts) = 1 THEN SelectSeq(entries, MatchesPattern)
        ELSE IF parts[1] = StarStar THEN Filenames(1)
        ELSE Descend(1)

InitTree ==
    /\ \E t \in Trees(MaxNodes) : \E u \in {{}} \cup {{d} : d \in t.dirs} :
          tTree = [t EXCEPT !.unreadable = u]
    /\ tStart \in tTree.dirs \cup {<<>>}
    /\ tPc = "call" /\ tTopdown = TRUE /\ tPattern = <<>> /\ tOut = <<>>
    /\ linkIdle /\ execIdle /\ shaIdle /\ ioIdle /\ fsIdle /\ lateIdle

WalkCall ==
    /\ tPc = "call"
    /\ \E topdown \in BOOLEAN :
          /\ tTopdown' = topdown
          /\ tOut' = UntilRaised(Walk(tTree, tStart, topdown), WalkRaised)
    /\ tPc' = "walked"
    /\ UNCHANGED <<tTree, tStart, tPattern>>

GlobCall ==
    /\ tPc = "call"
    /\ \E pattern \in Patterns :
          /\ tPattern' = pattern
          /\ tOut' = UntilRaised(Glob(tTree, tStart, pattern), Raised)
    /\ tPc' = "globbed"
    /\ UNCHANGED <<tTree, tStart, tTopdown>>

NextTree ==
    \/ WalkCall /\ UNCHANGED <<linkVars, execVars, shaVars, ioVars, fsVars, lateVars>>
    \/ GlobCall /\ UNCHANGED <<linkVars, execVars, shaVars, ioVars, fsVars, lateVars>>

SpecTree == InitTree /\ [][NextTree]_vars

-----------------------------------------------------------------------------
(* Claims about walk, iterdir and glob (SpecTree) *)

IsBelow(p, d) == Len(p) > Len(d) /\ SubSeq(p, 1, Len(d)) = d

\* number of positions of a sequence that hold x
Count(s, x) == Cardinality({i \in 1..Len(s) : s[i] = x})

\* C19: on a tree-shaped filesystem every directory listing of a walk holds
\* each child at most once; walk(D) yields D and every directory below D
\* exactly once as a root and every file below D exactly once in a files
\* list; top-down a directory comes before the directories below it,
\* bottom-up after them.
C19_WalkVisitsEachOnce ==
    (tPc = "walked" /\ tTree.unreadable = {}) =>
        /\ \A i \in 1..Len(tOut) : \A p \in tTree.dirs \cup tTree.files :
              Count(tOut[i].dirs \o tOut[i].files, p) <= 1
        /\ \A d \in tTree.dirs \cup {tStart} :
              Cardinality({i \in 1..Len(tOut) : tOut[i].root = d})
                  = IF d = tStart \/ IsBelow(d, tStart) THEN 1 ELSE 0
        /\ \A f \in tTree.files :
              Cardinality({ij \in (1..Len(tOut)) \X (1..MaxNodes + 1) :
                              /\ ij[2] <= Len(tOut[ij[1]].files)
                              /\ tOut[ij[1]].files[ij[2]] = f})
                  = IF IsBelow(f, tStart) THEN 1 ELSE 0
        /\ \A i, j \in 1..Len(tOut) :
              IsBelow(tOut[j].root, tOut[i].root) => IF tTopdown THEN i < j ELSE j < i

\* a bottom-up walk over a chain of three directories with a file at the end
C19_Witness ==
    /\ tPc = "walked" /\ ~tTopdown /\ Len(tOut) >= 3
    /\ \E i, j \in 1..Len(tOut) : IsBelow(tOut[j].root, tOut[i].root)
                                   /\ tOut[j].root # tOut[1].root /\ tOut[i].root # tStart
                                   /\ tOut[1].files # <<>>

\* what a pattern with '**' denotes below a directory: the prefix matched so
\* far, zero or more directories, then the remaining parts in order
RECURSIVE GlobMeaning(_, _, _)
GlobMeaning(tree, d, parts) ==
    LET children == {p \in tree.dirs \cup tree.files : Len(p) = Len(d) + 1 /\ IsBelow(p, d)}
    IN  IF parts = <<>> THEN {d}
        ELSE IF Head(parts) = StarStar
             THEN GlobMeaning(tree, d, Tail(parts))
                  \cup UNION {GlobMeaning(tree, c, parts) : c \in children \cap tree.dirs}
        ELSE UNION {GlobMeaning(tree, c, Tail(parts)) :
                       c \in {p \in children : /\ Fnmatch(p[Len(p)], Head(parts))
                                               /\ (Len(parts) = 1 \/ p \in tree.dirs)}}

HasStarStar(parts) ==
    /\ \E i \in 1..Len(parts) : parts[i] = StarStar
    /\ parts[Len(parts)] # StarStar

\* C20: glob with a '**' part yields exactly the entries that the pattern
\* denotes: below the prefix, through zero or more directories, matching
\* the remaining parts in order.
C20_GlobYieldsWhatPatternDenotes ==
    (tPc = "globbed" /\ HasStarStar(tPattern) /\ tTree.unreadable = {})
        => {tOut[i] : i \in 1..Len(tOut)} = GlobMeaning(tTree, tStart, tPattern)


\* C21: glob yields every entry that the pattern denotes and whose name
\* matches the last part of the pattern, regular files and directories
\* alike, for patterns with a '**' part and for patterns without one.
C21_GlobYieldsFilesAndDirectories ==
    (tPc = "globbed" /\ tTree.unreadable = {} /\ tPattern[Len(tPattern)] # StarStar)
        => GlobMeaning(tTree, tStart, tPattern) \subseteq {tOut[i] : i \in 1..Len(tOut)}

\* C22: when the listing of one directory fails during glob, glob raises no
\* error and still yields every match in the directories that can be read.
C22_UnreadableDirectoryEndsOnlyItsBranch ==
    tPc = "globbed" =>
        LET Hidden(p) == \E u \in tTree.unreadable : IsBelow(p, u)
            readable == [dirs |-> {d \in tTree.dirs : ~Hidden(d)},
                         files |-> {f \in tTree.files : ~Hidden(f)},
                         unreadable |-> {}]
            found == Glob(readable, tStart, tPattern)
        IN  /\ \A i \in 1..Len(tOut) : tOut[i] # Raised
            /\ tStart \notin tTree.unreadable
                  => {found[i] : i \in 1..Len(found)} \subseteq {tOut[i] : i \in 1..Len(tOut)}

-----------------------------------------------------------------------------
(* MpyPath.write_bytes, stat and read_as_stream / read_bytes on one remote  *)
(* file.  Bytes are integers 0..255; a base64 text is a sequence of the     *)
(* 6-bit values 0..63, B64Pad for '=' and B64Newline for the line end that  *)
(* b2a_base64 appends.                                                      *)

DataBytes == {0, 171}
B64Pad == 64
B64Newline == 65
\* self._stat_cache = None
NoSize == -1
\* serial.baudrate of the connection
Baudrates == {9600, 10240, 115200}

\* binascii.b2a_base64 / ubinascii.b2a_base64
RECURSIVE B64Encode(_)
B64Encode(b) ==
    IF b = <<>> THEN <<B64Newline>>
    ELSE IF Len(b) = 1 THEN <<b[1] \div 4, (b[1] % 4) * 16, B64Pad, B64Pad, B64Newline>>
    ELSE IF Len(b) = 2
         THEN <<b[1] \div 4, (b[1] % 4) * 16 + b[2] \div 16, (b[2] % 16) * 4, B64Pad, B64Newline>>
    ELSE <<b[1] \div 4, (b[1] % 4) * 16 + b[2] \div 16, (b[2] % 16) * 4 + b[3] \div 64, b[3] % 64>>
         \o B64Encode(Drop(b, 3))

\* bytes.rstrip() of a base64 text
RECURSIVE Rstrip(_)
Rstrip(c) == IF c # <<>> /\ c[Len(c)] = B64Newline THEN Rstrip(SubSeq(c, 1, Len(c) - 1)) ELSE c

\* binascii.a2b_base64 / ubinascii.a2b_base64: line ends are skipped
RECURSIVE B64Decode(_)
B64Decode(c) ==
    IF c = <<>> THEN <<>>
    ELSE IF c[1] = B64Newline THEN B64Decode(Tail(c))
    ELSE IF Len(c) < 4 THEN <<>>
    ELSE <<c[1] * 4 + c[2] \div 16>>
         \o (IF c[3] = B64Pad THEN <<>>
             ELSE <<(c[2] % 16) * 16 + c[3] \div 4>>
                  \o (IF c[4] = B64Pad THEN <<>> ELSE <<(c[3] % 4) * 64 + c[4]>>))
         \o B64Decode(Drop(c, 4))

\* [binascii.a2b_base64(block) for block in blocks] of what _b(n) printed
DecodedBatch(content, pos, n) ==
    LET printed == ReadBlocks(content, pos, n)
    IN  [i \in 1..Len(printed) |-> B64Decode(B64Encode(printed[i]))]

\* n_blocks = max(1, self._repl.serial.baudrate // 5120)
BlocksPerBatch(baudrate) == IF baudrate \div 5120 > 1 THEN baudrate \div 5120 ELSE 1

Executed(prog) == \E i \in 1..Len(ioProgs) : ioProgs[i] = prog

InitIO ==
    /\ ioPc = "start"
    /\ ioExists \in BOOLEAN
    /\ ioFile \in (IF ioExists THEN SeqsUpTo(DataBytes, MaxFileLen) ELSE {<<>>})
    /\ ioCache \in (IF ioExists THEN {NoSize, Len(ioFile)} ELSE {NoSize})
    /\ ioData = <<>> /\ ioPos = 0 /\ ioN = 0 /\ ioBatch = <<>> /\ ioBlocks = <<>>
    /\ ioStat = NoSize /\ ioProgs = <<>> /\ ioResult = NoExc
    /\ linkIdle /\ execIdle /\ shaIdle /\ treeIdle /\ fsIdle /\ lateIdle

\* an exec of the operation raised: the operation ends with that exception
IOFailed(r) ==
    /\ ioPc' = "failed" /\ ioResult' = r.exc

\* a write_bytes that leaves the stat cache alone
WriteOpenKeepCache ==
    /\ ioPc = "start"
    /\ \E data \in SeqsUpTo(DataBytes, MaxFileLen), r \in ExecResults(OkPacket) :
          /\ ioData' = data
          /\ IF r.kind = "raise"
             THEN IOFailed(r) /\ UNCHANGED <<ioExists, ioFile, ioProgs>>
             ELSE /\ ioExists' = TRUE /\ ioFile' = <<>>
                  /\ ioProgs' = Append(ioProgs, "open_wb")
                  /\ ioPc' = "write" /\ UNCHANGED ioResult
    /\ ioPos' = 0
    /\ UNCHANGED <<ioCache, ioN, ioBatch, ioBlocks, ioStat>>

\* write_bytes: self._stat_cache = None; exec('... _f = open(path, "wb")')
WriteOpen ==
    /\ ioPc = "start"
    /\ ioCache' = NoSize
    /\ \E data \in SeqsUpTo(DataBytes, MaxFileLen), r \in ExecResults(OkPacket) :
          /\ ioData' = data
          /\ IF r.kind = "raise"
             THEN IOFailed(r) /\ UNCHANGED <<ioExists, ioFile, ioProgs>>
             ELSE /\ ioExists' = TRUE /\ ioFile' = <<>>
                  /\ ioProgs' = Append(ioProgs, "open_wb")
                  /\ ioPc' = "write" /\ UNCHANGED ioResult
    /\ ioPos' = 0
    /\ UNCHANGED <<ioN, ioBatch, ioBlocks, ioStat>>

\* write_bytes: block = local_file.read(512); exec('_f.write(a2b(<base64>))')
WriteBlock ==
    /\ ioPc = "write"
    /\ ReadBlock(ioData, ioPos) # <<>>
    /\ \E r \in ExecResults(OkPacket) :
          IF r.kind = "raise"
          THEN IOFailed(r) /\ UNCHANGED <<ioFile, ioPos, ioProgs>>
          ELSE /\ ioFile' = ioFile \o B64Decode(Rstrip(B64Encode(ReadBlock(ioData, ioPos))))
               /\ ioPos' = ioPos + Len(ReadBlock(ioData, ioPos))
               /\ ioProgs' = Append(ioProgs, "write")
               /\ UNCHANGED <<ioPc, ioResult>>
    /\ UNCHANGED <<ioExists, ioCache, ioData, ioN, ioBatch, ioBlocks, ioStat>>

\* write_bytes: if not block: break; exec('_f.close(); del _f, a2b'); return len(data)
WriteClose ==
    /\ ioPc = "write"
    /\ ReadBlock(ioData, ioPos) = <<>>
    /\ \E r \in ExecResults(OkPacket) :
          IF r.kind = "raise"
          THEN IOFailed(r) /\ UNCHANGED ioProgs
          ELSE /\ ioPc' = "wrote" /\ ioProgs' = Append(ioProgs, "close_wb")
               /\ UNCHANGED ioResult
    /\ UNCHANGED <<ioExists, ioFile, ioCache, ioData, ioPos, ioN, ioBatch, ioBlocks, ioStat>>

\* stat() on the path object after write_bytes returned
StatAfterWrite ==
    /\ ioPc = "wrote" /\ ioStat = NoSize
    /\ IF ioCache # NoSize
       THEN ioStat' = ioCache /\ UNCHANGED <<ioPc, ioCache, ioProgs, ioResult>>
       ELSE \E r \in ExecResults(OkPacket) :
               IF r.kind = "raise"
               THEN IOFailed(r) /\ UNCHANGED <<ioCache, ioStat, ioProgs>>
               ELSE /\ ioCache' = Len(ioFile) /\ ioStat' = Len(ioFile)
                    /\ ioProgs' = Append(ioProgs, "stat")
                    /\ UNCHANGED <<ioPc, ioResult>>
    /\ UNCHANGED <<ioExists, ioFile, ioData, ioPos, ioN, ioBatch, ioBlocks>>

\* read_as_stream: n_blocks, then the program that opens the file and defines _b
ReadSetup ==
    /\ ioPc \in {"start", "wrote"}
    /\ \E baudrate \in Baudrates : ioN' = BlocksPerBatch(baudrate)
    /\ \E r \in ExecResults(IF ioExists THEN OkPacket ELSE EnoentPacket) :
          IF r.kind = "raise"
          THEN IOFailed(r) /\ UNCHANGED <<ioPos, ioProgs>>
          ELSE /\ ioPc' = "read" /\ ioPos' = 0 /\ ioProgs' = Append(ioProgs, "setup")
               /\ UNCHANGED ioResult
    /\ UNCHANGED <<ioExists, ioFile, ioCache, ioData, ioBatch, ioBlocks, ioStat>>

\* read_as_stream: blocks = evaluate('_b(n)'); if not blocks: break
ReadBatch ==
    /\ ioPc = "read" /\ ioBatch = <<>>
    /\ \E r \in ExecResults(OkPacket) :
          IF r.kind = "raise"
          THEN IOFailed(r) /\ UNCHANGED <<ioPos, ioBatch, ioProgs>>
          ELSE /\ ioBatch' = DecodedBatch(ioFile, ioPos, ioN)
               /\ ioPos' = ioPos + TotalLen(ReadBlocks(ioFile, ioPos, ioN))
               /\ ioProgs' = Append(ioProgs, "batch")
               /\ ioPc' = IF ReadBlocks(ioFile, ioPos, ioN) = <<>> THEN "close" ELSE "read"
               /\ UNCHANGED ioResult
    /\ UNCHANGED <<ioExists, ioFile, ioCache, ioData, ioN, ioBlocks, ioStat>>

\* read_as_stream: yield from [...]: the consumer takes the next block
ReadYield ==
    /\ ioPc = "read" /\ ioBatch # <<>>
    /\ ioBlocks' = Append(ioBlocks, Head(ioBatch))
    /\ ioBatch' = Tail(ioBatch)
    /\ UNCHANGED <<ioPc, ioExists, ioFile, ioCache, ioData, ioPos, ioN, ioStat, ioProgs, ioResult>>

\* the consumer stops iterating: the generator, suspended at a yield, is closed
ReadAbandon ==
    /\ ioPc = "read" /\ ioBlocks # <<>>
    /\ ioPc' = "abandoned"
    /\ UNCHANGED <<ioExists, ioFile, ioCache, ioData, ioPos, ioN, ioBatch, ioBlocks, ioStat,
                   ioProgs, ioResult>>

\* read_as_stream: exec('_f.close(); del _f, _b') after the loop
ReadClose ==
    /\ ioPc = "close"
    /\ \E r \in ExecResults(OkPacket) :
          IF r.kind = "raise"
          THEN IOFailed(r) /\ UNCHANGED ioProgs
          ELSE /\ ioPc' = "done" /\ ioProgs' = Append(ioProgs, "cleanup")
               /\ UNCHANGED ioResult
    /\ UNCHANGED <<ioExists, ioFile, ioCache, ioData, ioPos, ioN, ioBatch, ioBlocks, ioStat>>

NextIO ==
    \/ WriteOpen /\ UNCHANGED <<linkVars, execVars, shaVars, treeVars, fsVars, lateVars>>
    \/ WriteBlock /\ UNCHANGED <<linkVars, execVars, shaVars, treeVars, fsVars, lateVars>>
    \/ WriteClose /\ UNCHANGED <<linkVars, execVars, shaVars, treeVars, fsVars, lateVars>>
    \/ StatAfterWrite /\ UNCHANGED <<linkVars, execVars, shaVars, treeVars, fsVars, lateVars>>
    \/ ReadSetup /\ UNCHANGED <<linkVars, execVars, shaVars, treeVars, fsVars, lateVars>>
    \/ ReadBatch /\ UNCHANGED <<linkVars, execVars, shaVars, treeVars, fsVars, lateVars>>
    \/ ReadYield /\ UNCHANGED <<linkVars, execVars, shaVars, treeVars, fsVars, lateVars>>
    \/ ReadAbandon /\ UNCHANGED <<linkVars, execVars, shaVars, treeVars, fsVars, lateVars>>
    \/ ReadClose /\ UNCHANGED <<linkVars, execVars, shaVars, treeVars, fsVars, lateVars>>

SpecIO == InitIO /\ [][NextIO]_vars

-----------------------------------------------------------------------------
(* Claims about write_bytes, stat and read_as_stream (SpecIO) *)

RECURSIVE Concat(_)
Concat(blocks) == IF blocks = <<>> THEN <<>> ELSE Head(blocks) \o Concat(Tail(blocks))

\* C13: after write_bytes(B) returned, read_bytes on the path returns B and
\* stat() on the same path object reports the size len(B).
C13_WriteThenReadAndStat ==
    /\ (ioPc = "done" /\ Executed("close_wb")) => Concat(ioBlocks) = ioData
    /\ (Executed("close_wb") /\ ioStat # NoSize) => ioStat = Len(ioData)

\* data of two full blocks and a rest written over a longer file, stat and
\* read back
C13_Witness ==
    /\ ioPc = "done" /\ Executed("close_wb") /\ ioStat = Len(ioData)
    /\ Len(ioData) > 2 * BlockSize /\ Len(ioData) % BlockSize # 0
    /\ Concat(ioBlocks) = ioData

\* C14: a stream read to its end yields ceil(n / BlockSize) blocks, all but
\* the last of BlockSize bytes, the last not empty, whose concatenation is
\* the content; for every blocks-per-batch count.
C14_BlocksOfStream ==
    ioPc = "done" =>
        /\ Len(ioBlocks) = (Len(ioFile) + BlockSize - 1) \div BlockSize
        /\ \A i \in 1..Len(ioBlocks) :
              IF i < Len(ioBlocks) THEN Len(ioBlocks[i]) = BlockSize
              ELSE Len(ioBlocks[i]) \in 1..BlockSize
        /\ Concat(ioBlocks) = ioFile

\* two full blocks and a shorter third, fetched in batches of two
C14_Witness ==
    /\ ioPc = "done" /\ ioN = 2 /\ Len(ioBlocks) = 3
    /\ Len(ioBlocks[3]) < BlockSize /\ ~Executed("open_wb")

\* C15: once the setup program of a stream was executed, the stream does not
\* end (exhausted, abandoned by the consumer, or with a failed exec) without
\* the cleanup program having been executed.
C15_CleanupAlwaysRuns ==
    (ioPc \in {"done", "failed", "abandoned"} /\ Executed("setup")) => Executed("cleanup")

-----------------------------------------------------------------------------
(* MpyPath objects on a remote filesystem: stat and its cache, exists,      *)
(* unlink, rename, mkdir, rmdir, write_bytes, iterdir.  A path is a record  *)
(* of its anchor and its names; four path objects are followed: p and q,    *)
(* created by the caller, r, the object rename returned last, and c, one of *)
(* the objects the last iterdir returned.                                   *)

FsNodes == {<<"a">>, <<"b">>, <<"a", "b">>}
AbsPath(n) == [abs |-> TRUE, parts |-> n]
RelPath(n) == [abs |-> FALSE, parts |-> n]
NoPath == RelPath(<<>>)
ObjectPaths == {AbsPath(n) : n \in FsNodes \cup {<<>>}} \cup {RelPath(<<"a">>)}
NoStat == "none"
NoRename == [a |-> "", b |-> ""]
NoCall == [op |-> "none", obj |-> "", to |-> "", parents |-> FALSE, exist_ok |-> FALSE,
           pre |-> "none", res |-> "", sent |-> {}, execs |-> 0, statted |-> {}]

\* a parent that is the root for every path
ParentIsRoot(path) == [path EXCEPT !.parts = <<>>]

\* PurePath.parent
ParentOf(path) == [path EXCEPT !.parts = SubSeq(@, 1, Len(@) - 1)]

\* the board resolves a relative path against its current directory '/'
KindOf(fs, n) == IF n = <<>> THEN "dir" ELSE IF n \in FsNodes THEN fs[n] ELSE "none"
HasEntries(fs, n) == \E c \in FsNodes : Len(c) = Len(n) + 1 /\ SubSeq(c, 1, Len(n)) = n
                                        /\ fs[c] # "none"

ErrnoPacket(digits) == TracebackOf(<<"OSError", ": ", "[Errno ">> \o digits \o <<"] ", "msg">>)

\* the os module of the board: the response to a program and the filesystem after it
Board(fs, prog) ==
    LET n == prog.path.parts
        to == prog.to.parts
        up == SubSeq(n, 1, Len(n) - 1)
        Fail(digits) == [packet |-> ErrnoPacket(digits), fs |-> fs]
        Ok(after) == [packet |-> OkPacket, fs |-> after]
    IN  CASE prog.name = "stat" ->
               IF KindOf(fs, n) = "none" THEN Fail(<<"2">>) ELSE Ok(fs)
          [] prog.name = "remove" ->
               IF KindOf(fs, n) = "none" THEN Fail(<<"2">>)
               ELSE IF KindOf(fs, n) = "dir" THEN Fail(<<"2", "1">>)
               ELSE Ok([fs EXCEPT ![n] = "none"])
          [] prog.name = "rename" ->
               IF KindOf(fs, n) = "none" \/ n = <<>> THEN Fail(<<"2">>)
               ELSE IF KindOf(fs, to) # "none" THEN Fail(<<"1", "7">>)
               ELSE IF KindOf(fs, SubSeq(to, 1, Len(to) - 1)) # "dir" \/ to \notin FsNodes
                    THEN Fail(<<"2">>)
               ELSE Ok([fs EXCEPT ![to] = fs[n], ![n] = "none"])
          [] prog.name = "mkdir" ->
               IF KindOf(fs, n) # "none" THEN Fail(<<"1", "7">>)
               ELSE IF KindOf(fs, up) # "dir" THEN Fail(<<"2">>)
               ELSE Ok([fs EXCEPT ![n] = "dir"])
          [] prog.name = "rmdir" ->
               IF KindOf(fs, n) = "none" THEN Fail(<<"2">>)
               ELSE IF KindOf(fs, n) = "file" THEN Fail(<<"2", "0">>)
               ELSE IF n = <<>> \/ HasEntries(fs, n) THEN Fail(<<"3", "9">>)
               ELSE Ok([fs EXCEPT ![n] = "none"])
          [] prog.name = "open_wb" ->
               IF KindOf(fs, n) = "dir" THEN Fail(<<"2", "1">>)
               ELSE IF KindOf(fs, up) # "dir" THEN Fail(<<"2">>)
               ELSE Ok([fs EXCEPT ![n] = "file"])
          [] prog.name = "listdir" ->
               IF KindOf(fs, n) = "none" THEN Fail(<<"2">>)
               ELSE IF KindOf(fs, n) = "file" THEN Fail(<<"2", "0">>)
               ELSE Ok(fs)

\* how a call of exec ended: "ok" when it returned, else the type of the
\* exception it raised
ExecEndOf(r) == IF r.kind = "raise" THEN r.exc.type ELSE "ok"

\* exec on each response the board gives in this section: "ok" when exec
\* returns, else the type of the exception it raises
ExecEnds ==
    [data \in {OkPacket} \cup {ErrnoPacket(d) : d \in {<<"2">>, <<"1", "7">>, <<"2", "0">>,
                                                       <<"2", "1">>, <<"3", "9">>}}
        |-> ExecEndOf(ExecOn(data, DefaultTimeout))]

\* self._repl.evaluate(program) on a link that delivers the response of the
\* program: how exec ends and the filesystem afterwards
Outcome(fs, name, path, to) ==
    LET b == Board(fs, [name |-> name, path |-> path, to |-> to])
    IN  [res |-> ExecEnds[b.packet], fs |-> b.fs]

\* a cache that no operation empties
InvalidateNothing(o) == fCache

\* self._stat_cache = None
Invalidate(o) == [fCache EXCEPT ![o] = NoStat]

Call(op, o) == [NoCall EXCEPT !.op = op, !.obj = o, !.pre = KindOf(fFs, fPath[o].parts)]

InitFs ==
    /\ fFs \in {fs \in [FsNodes -> {"none", "file", "dir"}] :
                   \A n \in FsNodes : fs[n] # "none" => KindOf(fs, SubSeq(n, 1, Len(n) - 1)) = "dir"}
    /\ \E pp, pq \in ObjectPaths : fPath = [o \in {"p", "q", "r", "c"} |->
                                              IF o = "p" THEN pp ELSE IF o = "q" THEN pq ELSE NoPath]
    /\ fCache = [o \in {"p", "q", "r", "c"} |-> NoStat]
    /\ fLast = NoCall /\ fGone = {} /\ fRenamed = NoRename
    /\ linkIdle /\ execIdle /\ shaIdle /\ treeIdle /\ ioIdle /\ lateIdle

\* MpyPath.stat: the cached record, or the record of os.stat, cached
StatOutcome(o) ==
    IF fCache[o] # NoStat THEN [res |-> "ok", st |-> fCache[o], sent |-> {}, execs |-> 0]
    ELSE LET x == Outcome(fFs, "stat", fPath[o], NoPath)
         IN  [res |-> x.res,
              st |-> IF x.res = "ok" THEN KindOf(fFs, fPath[o].parts) ELSE NoStat,
              sent |-> {fPath[o]}, execs |-> 1]

Stat(o) ==
    /\ fPath[o] # NoPath
    /\ LET x == StatOutcome(o) IN
          /\ fCache' = [fCache EXCEPT ![o] = x.st]
          /\ fLast' = [Call("stat", o) EXCEPT !.res = x.res, !.sent = x.sent, !.execs = x.execs]
    /\ UNCHANGED <<fFs, fPath, fGone, fRenamed>>

\* MpyPath.exists: stat(), False on FileNotFoundError
Exists(o) ==
    /\ fPath[o] # NoPath
    /\ LET x == StatOutcome(o) IN
          /\ fCache' = [fCache EXCEPT ![o] = x.st]
          /\ fLast' = [Call("exists", o) EXCEPT
                          !.res = IF x.res = "ok" THEN "True"
                                  ELSE IF x.res = "FileNotFoundError" THEN "False"
                                  ELSE x.res,
                          !.sent = x.sent, !.execs = x.execs]
    /\ UNCHANGED <<fFs, fPath, fGone, fRenamed>>

\* MpyPath.is_dir and MpyPath.is_file: a bit of the mode of stat(), False on
\* FileNotFoundError
ModeTest(o, op, kind) ==
    /\ fPath[o] # NoPath
    /\ LET x == StatOutcome(o) IN
          /\ fCache' = [fCache EXCEPT ![o] = x.st]
          /\ fLast' = [Call(op, o) EXCEPT
                          !.res = IF x.res = "ok" THEN (IF x.st = kind THEN "True" ELSE "False")
                                  ELSE IF x.res = "FileNotFoundError" THEN "False"
                                  ELSE x.res,
                          !.sent = x.sent, !.execs = x.execs]
    /\ UNCHANGED <<fFs, fPath, fGone, fRenamed>>

is_dir(o) == ModeTest(o, "is_dir", "dir")

is_file(o) == ModeTest(o, "is_file", "file")

\* MpyPath.unlink
Unlink(o) ==
    /\ fPath[o] # NoPath
    /\ fCache' = Invalidate(o)
    /\ LET x == Outcome(fFs, "remove", fPath[o], NoPath) IN
          /\ fFs' = x.fs
          /\ fGone' = IF x.res = "ok" THEN fGone \cup {[node |-> fPath[o].parts, by |-> o]}
                      ELSE fGone
          /\ fLast' = [Call("unlink", o) EXCEPT !.res = x.res, !.sent = {fPath[o]}, !.execs = 1]
    /\ fRenamed' = NoRename
    /\ UNCHANGED fPath

\* MpyPath.rename(path_to), path_to a path object; the object returned is r
Rename(o, path_to) ==
    /\ fPath[o] # NoPath /\ fPath[path_to] # NoPath
    /\ ~HasEntries(fFs, fPath[o].parts)
    /\ IF ParentOf(fPath[o]) # ParentOf(fPath[path_to])
       THEN /\ fLast' = [Call("rename", o) EXCEPT !.to = path_to, !.res = "NotImplementedError"]
            /\ fCache' = Invalidate(o)
            /\ fRenamed' = NoRename
            /\ UNCHANGED <<fFs, fPath, fGone>>
       ELSE LET x == Outcome(fFs, "rename", fPath[o], fPath[path_to]) IN
               /\ fFs' = x.fs
               /\ fLast' = [Call("rename", o) EXCEPT !.to = path_to, !.res = x.res,
                               !.sent = {fPath[o], fPath[path_to]}, !.execs = 1]
               /\ IF x.res = "ok"
                  THEN /\ fPath' = [fPath EXCEPT !["r"] =
                                       [fPath[o] EXCEPT !.parts =
                                           Append(ParentOf(fPath[o]).parts,
                                                  fPath[path_to].parts[Len(fPath[path_to].parts)])]]
                       /\ fCache' = [Invalidate(o) EXCEPT !["r"] = NoStat]
                       /\ fGone' = {g \in fGone : g.node # fPath[path_to].parts}
                       /\ fRenamed' = [a |-> o, b |-> path_to]
                  ELSE /\ fCache' = Invalidate(o)
                       /\ fRenamed' = NoRename
                       /\ UNCHANGED <<fPath, fGone>>

\* MpyPath.mkdir(parents, exist_ok)
Mkdir(o, parents, exist_ok) ==
    /\ fPath[o] # NoPath
    /\ LET x == Outcome(fFs, "mkdir", fPath[o], NoPath) IN
          /\ fFs' = x.fs
          /\ fGone' = IF x.res = "ok" THEN {g \in fGone : g.node # fPath[o].parts} ELSE fGone
          /\ fLast' = [Call("mkdir", o) EXCEPT
                          !.parents = parents, !.exist_ok = exist_ok,
                          !.res = IF x.res = "FileExistsError" /\ exist_ok THEN "ok" ELSE x.res,
                          !.sent = {fPath[o]}, !.execs = 1]
    /\ fRenamed' = NoRename
    /\ UNCHANGED <<fPath, fCache>>

\* MpyPath.rmdir
Rmdir(o) ==
    /\ fPath[o] # NoPath
    /\ LET x == Outcome(fFs, "rmdir", fPath[o], NoPath) IN
          /\ fFs' = x.fs
          /\ fCache' = IF x.res = "ok" THEN Invalidate(o) ELSE fCache
          /\ fLast' = [Call("rmdir", o) EXCEPT !.res = x.res, !.sent = {fPath[o]}, !.execs = 1]
    /\ fRenamed' = NoRename
    /\ UNCHANGED <<fPath, fGone>>

\* MpyPath.write_bytes(b''): the open program, then the close program (the
\* data has no block)
WriteBytes(o) ==
    /\ fPath[o] # NoPath
    /\ fCache' = Invalidate(o)
    /\ LET x == Outcome(fFs, "open_wb", fPath[o], NoPath) IN
          /\ fFs' = x.fs
          /\ fGone' = IF x.res = "ok" THEN {g \in fGone : g.node # fPath[o].parts} ELSE fGone
          /\ fLast' = [Call("write_bytes", o) EXCEPT !.res = x.res, !.sent = {fPath[o]},
                                                     !.execs = IF x.res = "ok" THEN 2 ELSE 1]
    /\ fRenamed' = NoRename
    /\ UNCHANGED fPath

\* PurePath.as_posix, a name or a slash per symbol
RECURSIVE JoinParts(_)
JoinParts(parts) ==
    IF Len(parts) = 0 THEN <<>>
    ELSE IF Len(parts) = 1 THEN parts
    ELSE <<parts[1], "/">> \o JoinParts(Tail(parts))

AsPosix(path) == (IF path.abs THEN <<"/">> ELSE <<>>) \o JoinParts(path.parts)

\* posix_path_slash of iterdir
PosixPathSlash(path) ==
    IF AsPosix(path)[Len(AsPosix(path))] = "/" THEN AsPosix(path) ELSE Append(AsPosix(path), "/")

\* os.listdir on the board
Listdir(fs, n) == {c \in FsNodes : Len(c) = Len(n) + 1 /\ SubSeq(c, 1, Len(n)) = n /\ fs[c] # "none"}

\* a path object that loses the stat it was given
with_stat_dropped(cache, o, st) == [cache EXCEPT ![o] = NoStat]

\* MpyPath._with_stat
with_stat(cache, o, st) == [cache EXCEPT ![o] = st]

\* MpyPath.iterdir: one program lists the names and stats each of them; c is
\* one of the objects returned, with the stat the program printed for it
IterdirCall(o) ==
    /\ fPath[o] # NoPath
    /\ IF ~fPath[o].abs
       THEN /\ fLast' = [Call("iterdir", o) EXCEPT !.res = "ValueError"]
            /\ fPath' = [fPath EXCEPT !["c"] = NoPath]
            /\ fCache' = [fCache EXCEPT !["c"] = NoStat]
       ELSE LET x == Outcome(fFs, "listdir", fPath[o], NoPath)
                names == IF x.res = "ok" THEN Listdir(fFs, fPath[o].parts) ELSE {}
            IN  /\ fLast' = [Call("iterdir", o) EXCEPT
                                !.res = x.res, !.sent = {fPath[o]}, !.execs = 1,
                                !.statted = {PosixPathSlash(fPath[o]) \o <<n[Len(n)]>> : n \in names}]
                /\ IF names = {}
                   THEN /\ fPath' = [fPath EXCEPT !["c"] = NoPath]
                        /\ fCache' = [fCache EXCEPT !["c"] = NoStat]
                   ELSE \E n \in names :
                           /\ fPath' = [fPath EXCEPT !["c"] = AbsPath(n)]
                           /\ fCache' = with_stat(fCache, "c", fFs[n])
    /\ UNCHANGED <<fFs, fGone, fRenamed>>

\* the programs walk sends for the directories todo and below them: for each
\* directory one iterdir, and is_dir on each object iterdir returned, which
\* sends a stat when the object holds none
RECURSIVE WalkExecs(_, _)
WalkExecs(fs, todo) ==
    IF todo = {} THEN 0
    ELSE LET n == CHOOSE x \in todo : TRUE
             names == Listdir(fs, n)
             cache == [c \in names |-> with_stat([o \in {"c"} |-> NoStat], "c", fs[c])["c"]]
         IN  1 + Cardinality({c \in names : cache[c] = NoStat})
             + WalkExecs(fs, (todo \ {n}) \cup {c \in names : fs[c] = "dir"})

\* walk(o), every tuple taken
WalkFs(o) ==
    /\ fPath[o] # NoPath
    /\ LET x == Outcome(fFs, "listdir", fPath[o], NoPath) IN
          fLast' = IF ~fPath[o].abs THEN [Call("walk", o) EXCEPT !.res = "ValueError"]
                   ELSE IF x.res # "ok"
                   THEN [Call("walk", o) EXCEPT !.res = x.res, !.sent = {fPath[o]}, !.execs = 1]
                   ELSE [Call("walk", o) EXCEPT
                            !.res = "ok",
                            !.sent = {AbsPath(d) : d \in {d \in FsNodes \cup {<<>>} :
                                         /\ KindOf(fFs, d) = "dir" /\ Len(d) >= Len(fPath[o].parts)
                                         /\ SubSeq(d, 1, Len(fPath[o].parts)) = fPath[o].parts}},
                            !.execs = WalkExecs(fFs, {fPath[o].parts})]
    /\ UNCHANGED <<fFs, fPath, fCache, fGone, fRenamed>>

NextFs ==
    \/ \E o \in {"p", "q", "r", "c"} : Stat(o) /\ UNCHANGED <<linkVars, execVars, shaVars, treeVars, ioVars, lateVars>>
    \/ \E o \in {"p", "q", "r", "c"} : Exists(o) /\ UNCHANGED <<linkVars, execVars, shaVars, treeVars, ioVars, lateVars>>
    \/ \E o \in {"p", "c"} : is_dir(o) /\ UNCHANGED <<linkVars, execVars, shaVars, treeVars, ioVars, lateVars>>
    \/ \E o \in {"p", "c"} : is_file(o) /\ UNCHANGED <<linkVars, execVars, shaVars, treeVars, ioVars, lateVars>>
    \/ \E o \in {"p", "q"} : Unlink(o) /\ UNCHANGED <<linkVars, execVars, shaVars, treeVars, ioVars, lateVars>>
    \/ \E o, path_to \in {"p", "q"} :
          Rename(o, path_to) /\ UNCHANGED <<linkVars, execVars, shaVars, treeVars, ioVars, lateVars>>
    \/ \E o \in {"p", "q"}, parents, exist_ok \in BOOLEAN :
          Mkdir(o, parents, exist_ok) /\ UNCHANGED <<linkVars, execVars, shaVars, treeVars, ioVars, lateVars>>
    \/ \E o \in {"p", "q"} : Rmdir(o) /\ UNCHANGED <<linkVars, execVars, shaVars, treeVars, ioVars, lateVars>>
    \/ \E o \in {"p", "q"} : WriteBytes(o) /\ UNCHANGED <<linkVars, execVars, shaVars, treeVars, ioVars, lateVars>>
    \/ \E o \in {"p", "q"} : IterdirCall(o) /\ UNCHANGED <<linkVars, execVars, shaVars, treeVars, ioVars, lateVars>>
    \/ \E o \in {"p"} : WalkFs(o) /\ UNCHANGED <<linkVars, execVars, shaVars, treeVars, ioVars, lateVars>>

SpecFs == InitFs /\ [][NextFs]_vars

-----------------------------------------------------------------------------
(* Claims about MpyPath on a remote filesystem (SpecFs) *)

\* C11: after a successful mkdir, unlink, rmdir, rename or write_bytes on a
\* path object the stat cache of that object is empty.
C11_MutationEmptiesCache ==
    (fLast.op \in {"mkdir", "unlink", "rmdir", "rename", "write_bytes"} /\ fLast.res = "ok")
        => fCache[fLast.obj] = NoStat

\* C12: no operation sends a program that carries a relative path: on a
\* relative path it raises without an exec or sends the path anchored at '/'.
C12_NoRelativePathSent ==
    \A path \in fLast.sent : path.abs

\* C16: a stat of a path removed by a successful unlink (and not created
\* again) raises FileNotFoundError, on every path object that denotes it.
C16_StatAfterUnlinkRaises ==
    (fLast.op = "stat" /\ \E g \in fGone : g.node = fPath[fLast.obj].parts)
        => fLast.res = "FileNotFoundError"

\* C16, as the code has it: a stat on the path object that unlink was called
\* on raises FileNotFoundError; the cache of another object is not touched.
C16_StatAfterUnlinkOnSameObject ==
    (fLast.op = "stat" /\ \E g \in fGone : g.node = fPath[fLast.obj].parts /\ g.by = fLast.obj)
        => fLast.res = "FileNotFoundError"

\* stat raises on the object that unlinked a file whose stat it had cached,
\* while another object of the same path still holds the stat it cached
C16_Witness ==
    /\ fLast.op = "stat" /\ fLast.res = "FileNotFoundError" /\ fLast.sent # {}
    /\ \E g \in fGone : g.node = fPath[fLast.obj].parts /\ g.by = fLast.obj
    /\ \E o \in {"p", "q"} : o # fLast.obj /\ fPath[o] = fPath[fLast.obj] /\ fCache[o] = "file"

\* C17: after a successful rename(a, b) within a directory, exists() is
\* false on the object a and true on the object b and on the object that
\* rename returned.
C17_RenameMovesExistence ==
    (fLast.op = "exists" /\ fRenamed # NoRename)
        => /\ fLast.obj = fRenamed.a => fLast.res = "False"
           /\ fLast.obj \in {fRenamed.b, "r"} => fLast.res = "True"

\* exists() on the renamed object whose stat was cached before the rename,
\* with the target known to exist through the returned object
C17_Witness ==
    /\ fLast.op = "exists" /\ fRenamed # NoRename /\ fLast.obj = fRenamed.a
    /\ fLast.res = "False" /\ fCache["r"] # NoStat /\ fCache[fRenamed.b] # NoStat

\* C18: on an absolute path mkdir(parents=True, exist_ok=True) returns and
\* leaves a directory at the path; mkdir(exist_ok=False) on an existing
\* directory raises FileExistsError.
C18_MkdirParentsExistOk ==
    (fLast.op = "mkdir" /\ fPath[fLast.obj].abs)
        => /\ (fLast.parents /\ fLast.exist_ok)
                 => (fLast.res = "ok" /\ KindOf(fFs, fPath[fLast.obj].parts) = "dir")
           /\ (~fLast.exist_ok /\ fLast.pre = "dir") => fLast.res = "FileExistsError"

-----------------------------------------------------------------------------
(* Sync (src/there/sync.py): sync_file, sync_directory, remove_file and     *)
(* remove_directory with a local source (pathlib.Path) and the board as     *)
(* destination (MpyPath).  A name is written as one symbol.  A tree has its *)
(* directories, its files and the content of each file.                     *)

\* calls of one method with the same arguments, one after the other
MaxCalls == 2

\* no name is excluded
ExcludeNothing == {}

EXCLUDE_DIRS == {<<"__pycache__">>, <<".git">>}

TreeOf(dirs, data) ==
    [dirs |-> dirs, files |-> DOMAIN data, unreadable |-> {}, data |-> data]

\* the local trees: the directory s with the file a, and b, sub, sub/b or
\* sub/__pycache__/b, .git with .git/a or not
LocalTrees ==
    LET s == << <<"s">> >>
        Content(f) == IF f[Len(f)] = <<"a">> THEN <<0>> ELSE <<171>>
        Tops == {{}, {Append(s, <<"b">>)}}
        Subs == {[dirs |-> {}, files |-> {}],
                 [dirs |-> {Append(s, <<"sub">>)}, files |-> {}],
                 [dirs |-> {Append(s, <<"sub">>)}, files |-> {s \o << <<"sub">>, <<"b">> >>}],
                 [dirs |-> {Append(s, <<"sub">>), s \o << <<"sub">>, <<"__pycache__">> >>},
                  files |-> {s \o << <<"sub">>, <<"__pycache__">>, <<"b">> >>}]}
        Gits == {[dirs |-> {}, files |-> {}],
                 [dirs |-> {Append(s, <<".git">>)}, files |-> {s \o << <<".git">>, <<"a">> >>}]}
    IN  {TreeOf({s} \cup sub.dirs \cup git.dirs,
                [f \in {Append(s, <<"a">>)} \cup top \cup sub.files \cup git.files |-> Content(f)]) :
            top \in Tops, sub \in Subs, git \in Gits}

\* what the board holds before the first call: nothing, a regular file s, or
\* a directory s with or without a (same content as the local a, same size
\* with other content, other size) and sub, sub/b, sub/sub/b
RemoteTrees ==
    LET s == << <<"s">> >>
        sub == Append(s, <<"sub">>)
        As == {<<>>} \cup {[f \in {Append(s, <<"a">>)} |-> c] : c \in {<<0>>, <<171>>, <<0, 171>>}}
        Subs == {[dirs |-> {}, data |-> <<>>],
                 [dirs |-> {sub}, data |-> <<>>],
                 [dirs |-> {sub}, data |-> [f \in {Append(sub, <<"b">>)} |-> <<171>>]],
                 [dirs |-> {sub, Append(sub, <<"sub">>)},
                  data |-> [f \in {sub \o << <<"sub">>, <<"b">> >>} |-> <<171>>]]}
    IN  {TreeOf({}, <<>>), TreeOf({}, [f \in {s} |-> <<171>>])}
        \cup {TreeOf({s} \cup x.dirs, a @@ x.data) : a \in As, x \in Subs}

\* os.stat of a path of the board: what S_ISDIR / S_ISREG say
StatKind(fs, p) ==
    IF p = <<>> \/ p \in fs.dirs THEN "dir" ELSE IF p \in fs.files THEN "file" ELSE "none"

\* MpyPath.mkdir(parents=True, exist_ok=True), write_bytes(content), unlink
\* and rmdir on the path p of the board: whether the call raises, and the
\* filesystem after it
RemoteCall(fs, op, p, content) ==
    LET up == StatKind(fs, SubSeq(p, 1, Len(p) - 1))
        kind == StatKind(fs, p)
        Fails == [raised |-> TRUE, fs |-> fs]
        Done(after) == [raised |-> FALSE, fs |-> after]
    IN  CASE op = "mkdir" ->
               IF kind # "none" THEN Done(fs)
               ELSE IF up # "dir" THEN Fails
               ELSE Done([fs EXCEPT !.dirs = @ \cup {p}])
          [] op = "write_bytes" ->
               IF kind = "dir" \/ up # "dir" THEN Fails
               ELSE Done([fs EXCEPT !.files = @ \cup {p}, !.data = (p :> content) @@ @])
          [] op = "unlink" ->
               IF kind # "file" THEN Fails
               ELSE Done([fs EXCEPT !.files = @ \ {p},
                                    !.data = [f \in fs.files \ {p} |-> fs.data[f]]])
          [] op = "rmdir" ->
               IF kind # "dir" \/ p = <<>> \/ (\E c \in fs.dirs \cup fs.files : IsBelow(c, p))
               THEN Fails
               ELSE Done([fs EXCEPT !.dirs = @ \ {p}])

\* a Sync object that does not look at dry_run
MutatesAlways(opt) == TRUE

\* if not self.dry_run:
Mutates(opt) == ~opt.dry_run

\* sync_directory: the mkdir and sync_file calls it makes, in order
SyncDirectorySteps(src, source_path, destination_path, recursive, mutate) ==
    LET Excluded(p) == \E i \in Len(source_path) + 1..Len(p) :
                           p[i] \in EXCLUDE_DIRS /\ SubSeq(p, 1, i) \in src.dirs
        pruned == [src EXCEPT !.dirs = {d \in @ : ~Excluded(d)},
                              !.files = {f \in @ : ~Excluded(f)}]
        walked == Walk(pruned, source_path, TRUE)
        Mapped(dirpath) == destination_path \o SubSeq(dirpath, Len(source_path), Len(dirpath))
        SyncFiles(paths, to) ==
            [i \in 1..Len(paths) |-> [op |-> "sync_file", path |-> paths[i], to |-> to]]
        RECURSIVE Steps(_)
        Steps(i) ==
            IF i > Len(walked) THEN <<>>
            ELSE (IF mutate THEN <<[op |-> "mkdir", path |-> Mapped(walked[i].root), to |-> <<>>]>>
                  ELSE <<>>)
                 \o SyncFiles(walked[i].files, Mapped(walked[i].root)) \o Steps(i + 1)
        IsFile(p) == p \in src.files
    IN  IF recursive THEN Steps(1)
        ELSE SyncFiles(SelectSeq(Iterdir(src, source_path), IsFile),
                       Append(destination_path, source_path[Len(source_path)]))

\* remove_directory: the remove_file and rmdir calls it makes, in order
RemoveDirectorySteps(fs, path, recursive, mutate) ==
    LET walked == Walk(fs, path, FALSE)
        Rmdirs(p) == IF mutate THEN <<[op |-> "rmdir", path |-> p, to |-> <<>>]>> ELSE <<>>
        RemoveFiles(paths) ==
            [i \in 1..Len(paths) |-> [op |-> "remove_file", path |-> paths[i], to |-> <<>>]]
        RECURSIVE Steps(_)
        Steps(i) == IF i > Len(walked) THEN <<>>
                    ELSE RemoveFiles(walked[i].files) \o Rmdirs(walked[i].root) \o Steps(i + 1)
    IN  IF recursive THEN Steps(1) ELSE Rmdirs(path)

\* the calls made on a Sync object
SyncCalls ==
    LET s == << <<"s">> >>
        a == Append(s, <<"a">>)
        sub == Append(s, <<"sub">>)
    IN  {[op |-> "sync_file", src |-> a, dst |-> d, recursive |-> FALSE] : d \in {<<>>, s, a}}
        \cup {[op |-> "sync_directory", src |-> s, dst |-> d, recursive |-> r] :
                 d \in {<<>>, s}, r \in BOOLEAN}
        \cup {[op |-> "remove_file", src |-> <<>>, dst |-> a, recursive |-> FALSE]}
        \cup {[op |-> "remove_directory", src |-> <<>>, dst |-> d, recursive |-> r] :
                 d \in {s, sub}, r \in BOOLEAN}

InitSync ==
    /\ ySrc \in LocalTrees /\ yDst \in RemoteTrees
    /\ yOpt \in [dry_run : BOOLEAN, force : BOOLEAN, use_uhashlib : BOOLEAN]
    /\ yPc = "call" /\ yPlan = <<>> /\ yLog = <<>>
    /\ yCount = [files |-> 0, skipped |-> 0]
    /\ yCall = [op |-> "none", src |-> <<>>, dst |-> <<>>, recursive |-> FALSE,
                nth |-> 0, count |-> yCount, fs |-> yDst]
    /\ earlyIdle /\ rtcIdle /\ escIdle /\ framerIdle /\ lastIdle

\* entering a method: the checks of sync_directory, the first listing of walk
Enter(c, nth) ==
    LET invalid ==
            \/ /\ c.op = "sync_directory" /\ Mutates(yOpt)
               /\ (StatKind(yDst, c.dst) # "dir" \/ c.src \notin ySrc.dirs)
            \/ c.op = "remove_directory" /\ c.recursive /\ StatKind(yDst, c.dst) # "dir"
        steps ==
            CASE c.op = "sync_file" -> <<[op |-> "sync_file", path |-> c.src, to |-> c.dst]>>
              [] c.op = "sync_directory" ->
                   SyncDirectorySteps(ySrc, c.src, c.dst, c.recursive, Mutates(yOpt))
              [] c.op = "remove_file" -> <<[op |-> "remove_file", path |-> c.dst, to |-> <<>>]>>
              [] c.op = "remove_directory" ->
                   RemoveDirectorySteps(yDst, c.dst, c.recursive, Mutates(yOpt))
    IN  /\ yCall' = [op |-> c.op, src |-> c.src, dst |-> c.dst, recursive |-> c.recursive,
                     nth |-> nth, count |-> yCount, fs |-> yDst]
        /\ yPlan' = IF invalid THEN <<>> ELSE steps
        /\ yPc' = IF invalid THEN "raised" ELSE IF steps = <<>> THEN "returned" ELSE "run"
        /\ UNCHANGED <<ySrc, yDst, yOpt, yCount, yLog>>

FirstCall ==
    /\ yPc = "call"
    /\ \E c \in SyncCalls : Enter(c, 1)

SameCallAgain ==
    /\ yPc = "returned" /\ yCall.nth < MaxCalls
    /\ Enter(yCall, yCall.nth + 1)

\* a step of the call is over: it raised, or the next step follows, or the
\* method returns
Finish(raised) ==
    /\ yPlan' = Tail(yPlan)
    /\ yPc' = IF raised THEN "raised" ELSE IF Tail(yPlan) = <<>> THEN "returned" ELSE "run"

Issued(op, path, from) == Append(yLog, [op |-> op, path |-> path, from |-> from, fs |-> yDst])

\* sync_file; sha256 of the destination is the digest of its content, or b''
\* when the hashing program raised an OSError
SyncFile ==
    /\ yPc = "run" /\ Head(yPlan).op = "sync_file"
    /\ LET source_path == Head(yPlan).path
           given == Head(yPlan).to
           destination_path == IF Mutates(yOpt) /\ StatKind(yDst, given) = "dir"
                               THEN Append(given, source_path[Len(source_path)])
                               ELSE given
           data == ySrc.data[source_path]
           kind == StatKind(yDst, destination_path)
           st_size == IF kind = "file" THEN Len(yDst.data[destination_path]) ELSE 0
           written == RemoteCall(yDst, "write_bytes", destination_path, data)
       IN  \E sha256 \in (IF kind = "file" THEN {<<Digest(yDst.data[destination_path])>>} ELSE {})
                         \cup {<<>>} :
              LET files_are_different ==
                      \/ kind = "none"
                      \/ Len(data) # st_size
                      \/ yOpt.use_uhashlib /\ <<Digest(data)>> # sha256
              IN  IF Mutates(yOpt) /\ (yOpt.force \/ files_are_different)
                  THEN /\ yCount' = [yCount EXCEPT !.files = @ + 1]
                       /\ yDst' = written.fs
                       /\ yLog' = Issued("write_bytes", destination_path, source_path)
                       /\ Finish(written.raised)
                  ELSE /\ yCount' = [yCount EXCEPT !.skipped = @ + 1]
                       /\ Finish(FALSE)
                       /\ UNCHANGED <<yDst, yLog>>
    /\ UNCHANGED <<ySrc, yOpt, yCall>>

\* destination_dirpath.mkdir(parents=True, exist_ok=True) in sync_directory
MakeDestination ==
    /\ yPc = "run" /\ Head(yPlan).op = "mkdir"
    /\ LET made == RemoteCall(yDst, "mkdir", Head(yPlan).path, <<>>)
       IN  /\ yDst' = made.fs
           /\ yLog' = Issued("mkdir", Head(yPlan).path, <<>>)
           /\ Finish(made.raised)
    /\ UNCHANGED <<ySrc, yOpt, yCall, yCount>>

\* remove_file
RemoveFile ==
    /\ yPc = "run" /\ Head(yPlan).op = "remove_file"
    /\ LET removed == RemoteCall(yDst, "unlink", Head(yPlan).path, <<>>)
       IN  IF Mutates(yOpt)
           THEN /\ yCount' = [yCount EXCEPT !.files = @ + 1]
                /\ yDst' = removed.fs
                /\ yLog' = Issued("unlink", Head(yPlan).path, <<>>)
                /\ Finish(removed.raised)
           ELSE /\ yCount' = [yCount EXCEPT !.skipped = @ + 1]
                /\ Finish(FALSE)
                /\ UNCHANGED <<yDst, yLog>>
    /\ UNCHANGED <<ySrc, yOpt, yCall>>

\* remove_directory(path, recursive=False): path.rmdir()
RemoveDirectory ==
    /\ yPc = "run" /\ Head(yPlan).op = "rmdir"
    /\ LET removed == RemoteCall(yDst, "rmdir", Head(yPlan).path, <<>>)
       IN  /\ yDst' = removed.fs
           /\ yLog' = Issued("rmdir", Head(yPlan).path, <<>>)
           /\ Finish(removed.raised)
    /\ UNCHANGED <<ySrc, yOpt, yCall, yCount>>

NextSync ==
    \/ FirstCall /\ UNCHANGED <<earlyVars, rtcVars, escVars, framerVars, lastVars>>
    \/ SameCallAgain /\ UNCHANGED <<earlyVars, rtcVars, escVars, framerVars, lastVars>>
    \/ SyncFile /\ UNCHANGED <<earlyVars, rtcVars, escVars, framerVars, lastVars>>
    \/ MakeDestination /\ UNCHANGED <<earlyVars, rtcVars, escVars, framerVars, lastVars>>
    \/ RemoveFile /\ UNCHANGED <<earlyVars, rtcVars, escVars, framerVars, lastVars>>
    \/ RemoveDirectory /\ UNCHANGED <<earlyVars, rtcVars, escVars, framerVars, lastVars>>

SpecSync == InitSync /\ [][NextSync]_vars

-----------------------------------------------------------------------------
(* Claims about Sync (SpecSync) *)

\* files counted / skipped by the call in progress
Copied == yCount.files - yCall.count.files
Skipped == yCount.skipped - yCall.count.skipped

\* C23: sync_file without dry-run writes the source bytes to the destination
\* and counts one copied file if and only if force is set or the files are
\* different (destination absent, sizes differ, or with hashing enabled the
\* SHA-256 digests of the contents differ); otherwise it writes nothing and
\* counts one skipped file.  A call that returns counts exactly one file, and
\* after a copy the destination holds the content of the source.
C23_SyncFileCopiesIffDifferent ==
    (yPc = "returned" /\ yCall.op = "sync_file" /\ ~yOpt.dry_run) =>
        LET before == yCall.fs
            dest == IF StatKind(before, yCall.dst) = "dir"
                    THEN Append(yCall.dst, yCall.src[Len(yCall.src)]) ELSE yCall.dst
            data == ySrc.data[yCall.src]
            different == \/ StatKind(before, dest) # "file"
                         \/ Len(data) # Len(before.data[dest])
                         \/ yOpt.use_uhashlib /\ Digest(data) # Digest(before.data[dest])
        IN  /\ Copied \in {0, 1} /\ Skipped = 1 - Copied
            /\ Copied = 1 <=> (yOpt.force \/ different)
            /\ Copied = 1 => dest \in yDst.files /\ yDst.data[dest] = data
            /\ Copied = 0 => yDst = before

\* C24: a second sync_directory(S, D, recursive=true) with the same arguments
\* on an unchanged source copies no file; for the source {a, sub/b} and an
\* empty destination the first call counts 2 copied and 0 skipped, the
\* second 0 copied and 2 skipped.
C24_SecondSyncCopiesNothing ==
    (/\ yPc = "returned" /\ yCall.op = "sync_directory" /\ yCall.recursive /\ yCall.nth = 2
     /\ ~yOpt.dry_run /\ ~yOpt.force) =>
        /\ Copied = 0
        /\ (/\ ySrc.files = {<< <<"s">>, <<"a">> >>, << <<"s">>, <<"sub">>, <<"b">> >>}
            /\ yLog # <<>> /\ yLog[1].fs.dirs = {} /\ yLog[1].fs.files = {})
              => /\ yCall.count = [files |-> 2, skipped |-> 0]
                 /\ yCount = [files |-> 2, skipped |-> 2]

\* C25: with dry_run set no mkdir, write_bytes, unlink or rmdir is issued and
\* the filesystem of the board stays as it is; no file is counted as copied,
\* and every file that sync_file or remove_file is called for is counted as
\* skipped.
C25_DryRunIssuesNothing ==
    (yOpt.dry_run /\ yCall.op # "none") =>
        LET Hidden(f) == \E i \in Len(yCall.src) + 1..Len(f) - 1 : f[i] \in EXCLUDE_DIRS
            visited ==
                CASE yCall.op \in {"sync_file", "remove_file"} -> 1
                  [] yCall.op = "sync_directory" ->
                       Cardinality({f \in ySrc.files :
                                       /\ IsBelow(f, yCall.src) /\ ~Hidden(f)
                                       /\ (yCall.recursive \/ Len(f) = Len(yCall.src) + 1)})
                  [] yCall.op = "remove_directory" ->
                       IF yCall.recursive
                       THEN Cardinality({f \in yDst.files : IsBelow(f, yCall.dst)}) ELSE 0
        IN  /\ yLog = <<>> /\ yDst = yCall.fs /\ yCount.files = 0
            /\ yPc = "returned" => Skipped = visited

\* a dry run of sync_directory over a source with files in two directories
\* and of remove_directory over a directory with a file
C25_Witness ==
    /\ yOpt.dry_run /\ yPc = "returned" /\ yCall.recursive /\ yCall.nth = 1
    /\ \/ yCall.op = "sync_directory" /\ Skipped = 3
       \/ yCall.op = "remove_directory" /\ Skipped = 2

\* C26: in sync_directory without dry-run, recursive or not, every file F of
\* a visited source directory is written to <mapped directory>/F.name, where
\* the mapped directory dst / src_dir.relative_to(src.parent) exists as a
\* directory before the file is synced; two different source files are never
\* written to the same destination path.
C26_FilesLandInMappedDirectory ==
    (yCall.op = "sync_directory" /\ ~yOpt.dry_run) =>
        /\ \A i \in 1..Len(yLog) : yLog[i].op = "write_bytes" =>
              LET F == yLog[i].from
                  mapped == yCall.dst \o SubSeq(F, Len(yCall.src), Len(F) - 1)
              IN  /\ StatKind(yLog[i].fs, mapped) = "dir"
                  /\ yLog[i].path = Append(mapped, F[Len(F)])
        /\ \A i, j \in 1..Len(yLog) :
              (yLog[i].op = "write_bytes" /\ yLog[j].op = "write_bytes"
               /\ yLog[i].path = yLog[j].path) => yLog[i].from = yLog[j].from

\* C27: remove_directory(p, recursive=true) without dry-run issues every
\* rmdir on a directory that holds no file and no directory any more, and
\* when it returns neither p nor anything below p exists.
C27_RemoveDirectoryBottomUp ==
    (yCall.op = "remove_directory" /\ yCall.recursive /\ ~yOpt.dry_run) =>
        /\ \A i \in 1..Len(yLog) : yLog[i].op = "rmdir" =>
              ~\E c \in yLog[i].fs.dirs \cup yLog[i].fs.files : IsBelow(c, yLog[i].path)
        /\ yPc = "returned" =>
              ~\E c \in yDst.dirs \cup yDst.files : c = yCall.dst \/ IsBelow(c, yCall.dst)

\* /s with a file, a directory in it and a directory with a file below that
\* was removed
C27_Witness ==
    /\ yPc = "returned" /\ yCall.op = "remove_directory" /\ yCall.recursive /\ ~yOpt.dry_run
    /\ yCall.dst = << <<"s">> >>
    /\ Cardinality(yCall.fs.dirs) = 3 /\ Cardinality(yCall.fs.files) = 2
    /\ yDst.dirs = {} /\ yDst.files = {}

-----------------------------------------------------------------------------
(* MicroPythonRepl.read_rtc and set_rtc: the subsecond field.  The other    *)
(* fields of the datetime tuple are written and read as they are.           *)

\* grid of the microsecond values passed to set_rtc
MaxTicks == 64

Microseconds ==
    {(k * 1000000) \div MaxTicks : k \in 0..MaxTicks - 1} \cup {500000, 999999}

\* set_rtc: the subsecond written for board_time.microsecond
SubsecondOf(microsecond) == 255 - (255 * microsecond) \div 999999

\* read_rtc: the microsecond of the datetime returned for a subsecond
MicrosecondOf(subsecond) == (999999 * (255 - subsecond)) \div 256

InitRtc ==
    /\ rPc = "start" /\ rBoard \in 0..255 /\ rTime = -1 /\ rRead = -1
    /\ earlyIdle /\ syncIdle /\ escIdle /\ framerIdle /\ lastIdle

\* set_rtc(board_time): a time of the caller's, or the one read_rtc returned
SetRtc ==
    /\ \E microsecond \in Microseconds \cup ({rRead} \ {-1}) :
          /\ rTime' = microsecond
          /\ rBoard' = SubsecondOf(microsecond)
    /\ rPc' = "set"
    /\ UNCHANGED rRead

\* read_rtc() while the clock of the board stands still
ReadRtc ==
    /\ rRead' = MicrosecondOf(rBoard)
    /\ rPc' = "read"
    /\ UNCHANGED <<rBoard, rTime>>

NextRtc ==
    \/ SetRtc /\ UNCHANGED <<earlyVars, syncVars, escVars, framerVars, lastVars>>
    \/ ReadRtc /\ UNCHANGED <<earlyVars, syncVars, escVars, framerVars, lastVars>>

SpecRtc == InitRtc /\ [][NextRtc]_vars

\* C28: set_rtc with 2024-01-02 03:04:05.500000 followed by read_rtc, the
\* clock not advancing, returns a time within 4 microseconds of the original.
C28_RtcRoundTripWithin4Microseconds ==
    (rPc = "read" /\ rTime = 500000) => (rRead - rTime \in -4..4)

-----------------------------------------------------------------------------
(* string_escape: escaped and unescape.  A text is a sequence of code       *)
(* points: 92 is the backslash, 32 the space, 35 '#', 120 'x', 10 the       *)
(* newline.                                                                 *)

\* longest text
MaxTextLen == 2

\* a, 0, 1, space, '#', backslash, and the controls NUL, SOH, TAB, LF, VT, US
TextChars == {97, 48, 49, 32, 35, 92, 0, 1, 9, 10, 11, 31}

\* ESCAPE_CONTROLS: repr(chr(k))[1:-1] for the controls, with the entries
\* set afterwards; text.translate leaves every other character as it is
EscapeOf(k) ==
    LET Hex(d) == IF d < 10 THEN 48 + d ELSE 87 + d
    IN  CASE k = 0 -> <<92, 48>>
          [] k = 7 -> <<92, 97>>
          [] k = 8 -> <<92, 98>>
          [] k = 9 -> <<92, 116>>
          [] k = 10 -> <<92, 110>>
          [] k = 11 -> <<92, 118>>
          [] k = 12 -> <<92, 102>>
          [] k = 13 -> <<92, 114>>
          [] k = 32 -> <<92, 32>>
          [] k = 35 -> <<92, 120, 50, 51>>
          [] k = 92 -> <<92, 92>>
          [] k \in (1..6) \cup (14..31) -> <<92, 120, Hex(k \div 16), Hex(k % 16)>>
          [] OTHER -> <<k>>

RECURSIVE Escaped(_)
Escaped(text) == IF text = <<>> THEN <<>> ELSE EscapeOf(Head(text)) \o Escaped(Tail(text))

\* re_unescape after a backslash: group(1) of the match, or NoGroup when no
\* alternative matches ('.' and '$' stop at a newline)
NoGroup == <<-1>>
Group(rest) ==
    LET IsOct(c) == c \in 48..55
        IsHex(c) == c \in (48..57) \cup (97..102)
        octs == IF Len(rest) >= 3 /\ IsOct(rest[1]) /\ IsOct(rest[2]) /\ IsOct(rest[3]) THEN 3
                ELSE IF Len(rest) >= 2 /\ IsOct(rest[1]) /\ IsOct(rest[2]) THEN 2
                ELSE IF Len(rest) >= 1 /\ IsOct(rest[1]) THEN 1 ELSE 0
    IN  IF rest # <<>> /\ rest[1] = 92 THEN <<92>>
        ELSE IF octs > 0 THEN SubSeq(rest, 1, octs)
        ELSE IF Len(rest) >= 2 /\ rest[1] = 120 /\ rest[2] # 10
             THEN SubSeq(rest, 1, IF Len(rest) >= 3 /\ IsHex(rest[3]) THEN 3 ELSE 2)
        ELSE IF rest # <<>> /\ rest[1] # 10 THEN <<rest[1]>>
        ELSE IF rest = <<>> \/ rest = <<10>> THEN <<>>
        ELSE NoGroup

\* _replace: the code point that replaces the match, or -1 when it raises
\* (int() of digits only: a sign or blank never follows the 'x' here)
Replace(b) ==
    LET Value(c) == IF c \in 48..57 THEN c - 48
                    ELSE IF c \in 97..102 THEN c - 87
                    ELSE IF c \in 65..70 THEN c - 55 ELSE -1
        RECURSIVE ParseInt(_, _, _)
        ParseInt(digits, base, acc) ==
            IF digits = <<>> THEN acc
            ELSE IF Value(Head(digits)) \notin 0..base - 1 THEN -1
            ELSE ParseInt(Tail(digits), base, acc * base + Value(Head(digits)))
    IN  IF b = <<>> THEN -1
        ELSE IF b[1] = 120 THEN (IF Len(b) = 1 THEN -1 ELSE ParseInt(Tail(b), 16, 0))
        ELSE IF b[1] \in 48..57 THEN ParseInt(b, 8, 0)
        ELSE CASE b[1] = 34 -> 34
               [] b[1] = 39 -> 39
               [] b[1] = 92 -> 92
               [] b[1] = 97 -> 7
               [] b[1] = 98 -> 8
               [] b[1] = 102 -> 12
               [] b[1] = 110 -> 10
               [] b[1] = 114 -> 13
               [] b[1] = 116 -> 9
               [] OTHER -> -1

\* unescape: re_unescape.sub(_replace, text)
RECURSIVE Unescape(_)
Unescape(text) ==
    IF text = <<>> THEN [raised |-> FALSE, text |-> <<>>]
    ELSE LET rest == Tail(text)
             b == Group(rest)
             Put(c, r) == IF r.raised THEN r ELSE [r EXCEPT !.text = <<c>> \o @]
         IN  IF Head(text) # 92 \/ b = NoGroup THEN Put(Head(text), Unescape(rest))
             ELSE IF Replace(b) = -1 THEN [raised |-> TRUE, text |-> <<>>]
             ELSE Put(Replace(b), Unescape(Drop(rest, Len(b))))

InitEscape ==
    /\ eText \in SeqsUpTo(TextChars, MaxTextLen)
    /\ ePc = "text" /\ eEscaped = <<>> /\ eResult = <<>>
    /\ earlyIdle /\ syncIdle /\ rtcIdle /\ framerIdle /\ lastIdle

EscapedCall ==
    /\ ePc = "text"
    /\ eEscaped' = Escaped(eText)
    /\ ePc' = "escaped"
    /\ UNCHANGED <<eText, eResult>>

UnescapeCall ==
    /\ ePc = "escaped"
    /\ eResult' = Unescape(eEscaped)
    /\ ePc' = "unescaped"
    /\ UNCHANGED <<eText, eEscaped>>

NextEscape ==
    \/ EscapedCall /\ UNCHANGED <<earlyVars, syncVars, rtcVars, framerVars, lastVars>>
    \/ UnescapeCall /\ UNCHANGED <<earlyVars, syncVars, rtcVars, framerVars, lastVars>>

SpecEscape == InitEscape /\ [][NextEscape]_vars

\* C29: unescape(escaped(s)) = s, and unescape raises no error on escaped(s),
\* for every text s of printable characters, space, '#', backslash, digits
\* and the control characters 0..31.
C29_UnescapeInvertsEscaped ==
    ePc = "unescaped" => (~eResult.raised /\ eResult.text = eText)

-----------------------------------------------------------------------------
(* MicroPythonReplProtocol: the framing of the bytes read from the port.    *)
(* data_received is inherited from serial.threaded.Packetizer: it extends   *)
(* the buffer and hands every part that ends at TERMINATOR to handle_packet.*)

\* longest stream of bytes from the board
MaxStreamLen == 6

\* 0x04, 0x3E and any other byte
StreamBytes == {"EOT", ">", "x"}

\* a framer that cuts at 0x04 alone
TerminatorEot == <<"EOT">>

TERMINATOR == <<"EOT", ">">>

\* handle_packet: self.response.put(data)
handle_packet(queue, data) == Append(queue, data)

\* the loop of data_received: while TERMINATOR in self.buffer, split at the
\* first one and handle the part before it
RECURSIVE Packetize(_, _)
Packetize(buffer, queue) ==
    IF ~Contains(buffer, TERMINATOR) THEN [buffer |-> buffer, queue |-> queue]
    ELSE LET At(i) == SubSeq(buffer, i, i + Len(TERMINATOR) - 1) = TERMINATOR
             first == CHOOSE i \in 1..Len(buffer) : At(i) /\ \A j \in 1..i - 1 : ~At(j)
         IN  Packetize(Drop(buffer, first + Len(TERMINATOR) - 1),
                       handle_packet(queue, SubSeq(buffer, 1, first - 1)))

\* the reader loop of the thread: while self.alive and self.serial.is_open
ReaderRuns(alive, port) == alive /\ port = "open"

\* ReaderThread.stop: the loop ends, the port stays as it is
ReaderThreadStop(port) == [alive |-> FALSE, port |-> port]

\* ReaderThread.close: stop, then self.serial.close()
ReaderThreadClose(port) == [alive |-> FALSE, port |-> "closed"]

\* a stop that only interrupts
OnlyInterrupt(interrupt) == IF interrupt THEN <<"CTRL-C">> ELSE <<>>

\* what stop and close write: b'\x03\x02' or b'\x02'
ExitRawRepl(interrupt) == IF interrupt THEN <<"CTRL-C", "CTRL-B">> ELSE <<"CTRL-B">>

At(where, interrupt) == [at |-> where, interrupt |-> interrupt]

InitFramer ==
    /\ kStream \in SeqsUpTo(StreamBytes, MaxStreamLen)
    /\ kRead = 0 /\ kBuffer = <<>> /\ kQueue = <<>>
    /\ kPc = At("running", FALSE) /\ kAlive = TRUE /\ kPort = "open" /\ kSent = <<>> /\ kTerm = 0
    /\ earlyIdle /\ syncIdle /\ rtcIdle /\ escIdle /\ lastIdle

\* data_received(data) with the bytes of one read of the port
DataReceived ==
    /\ ReaderRuns(kAlive, kPort)
    /\ kRead < Len(kStream)
    /\ \E n \in 1..Len(kStream) - kRead :
          LET data == SubSeq(kStream, kRead + 1, kRead + n)
              framed == Packetize(kBuffer \o data, kQueue)
          IN  /\ kRead' = kRead + n
              /\ kBuffer' = framed.buffer
              /\ kQueue' = framed.queue
    /\ UNCHANGED <<kStream, kPc, kAlive, kPort, kSent, kTerm>>

\* MicroPythonRepl.stop, its write
StopWrite(interrupt) ==
    /\ kPc.at = "running"
    /\ kSent' = kSent \o ExitRawRepl(interrupt)
    /\ kPc' = At("stop", interrupt)
    /\ UNCHANGED <<kStream, kRead, kBuffer, kQueue, kAlive, kPort, kTerm>>

\* MicroPythonRepl.stop: self._thread.stop()
StopThread ==
    /\ kPc.at = "stop"
    /\ kAlive' = ReaderThreadStop(kPort).alive
    /\ kPort' = ReaderThreadStop(kPort).port
    /\ kPc' = At("stopped", kPc.interrupt)
    /\ UNCHANGED <<kStream, kRead, kBuffer, kQueue, kSent, kTerm>>

\* MicroPythonRepl.close, its write
CloseWrite(interrupt) ==
    /\ kPc.at = "running"
    /\ kSent' = kSent \o ExitRawRepl(interrupt)
    /\ kPc' = At("close", interrupt)
    /\ UNCHANGED <<kStream, kRead, kBuffer, kQueue, kAlive, kPort, kTerm>>

\* MicroPythonRepl.close: self._thread.close()
CloseThread ==
    /\ kPc.at = "close"
    /\ kAlive' = ReaderThreadClose(kPort).alive
    /\ kPort' = ReaderThreadClose(kPort).port
    /\ kPc' = At("closed", kPc.interrupt)
    /\ UNCHANGED <<kStream, kRead, kBuffer, kQueue, kSent, kTerm>>

\* main, interactive: after m.stop() the terminal reads the port
TerminalRead ==
    /\ kPc.at = "stopped" /\ kPort = "open"
    /\ kRead + kTerm < Len(kStream)
    /\ \E n \in 1..Len(kStream) - kRead - kTerm : kTerm' = kTerm + n
    /\ UNCHANGED <<kStream, kRead, kBuffer, kQueue, kPc, kAlive, kPort, kSent>>

NextFramer ==
    \/ DataReceived /\ UNCHANGED <<earlyVars, syncVars, rtcVars, escVars, lastVars>>
    \/ \E interrupt \in BOOLEAN : StopWrite(interrupt) /\ UNCHANGED <<earlyVars, syncVars, rtcVars, escVars, lastVars>>
    \/ StopThread /\ UNCHANGED <<earlyVars, syncVars, rtcVars, escVars, lastVars>>
    \/ \E interrupt \in BOOLEAN : CloseWrite(interrupt) /\ UNCHANGED <<earlyVars, syncVars, rtcVars, escVars, lastVars>>
    \/ CloseThread /\ UNCHANGED <<earlyVars, syncVars, rtcVars, escVars, lastVars>>
    \/ TerminalRead /\ UNCHANGED <<earlyVars, syncVars, rtcVars, escVars, lastVars>>

SpecFramer == InitFramer /\ [][NextFramer]_vars

\* C30: however the stream is cut into reads, the packets delivered are the
\* byte sequences between consecutive occurrences of 0x04 0x3E, in stream
\* order, one per terminator; what follows the last terminator stays in the
\* buffer and is not delivered.
C30_FramerDeliversPacketsBetweenTerminators ==
    LET T == <<"EOT", ">">>
        RECURSIVE Joined(_)
        Joined(q) == IF q = <<>> THEN <<>> ELSE Head(q) \o T \o Joined(Tail(q))
    IN  /\ Joined(kQueue) \o kBuffer = SubSeq(kStream, 1, kRead)
        /\ ~Contains(kBuffer, T)
        /\ \A i \in 1..Len(kQueue) : ~Contains(kQueue[i] \o <<"EOT">>, T)

\* two packets delivered, the first not empty, bytes left in the buffer
\* with the first byte of a terminator at their end
C30_Witness ==
    /\ Len(kQueue) = 2 /\ kQueue[1] # <<>>
    /\ kBuffer # <<>> /\ kBuffer[Len(kBuffer)] = "EOT"

-----------------------------------------------------------------------------
(* Further claims about MpyPath on a remote filesystem (SpecFs) *)

\* C31: iterdir on a directory sends exactly one program; stat, exists,
\* is_dir and is_file on an object iterdir returned send none; walk sends
\* one program per directory it visits; the paths the program of iterdir('/')
\* stats on the board are '/' followed by the name.
C31_IterdirPreloadsStat ==
    /\ (fLast.op = "iterdir" /\ fPath[fLast.obj].abs)
          => /\ fLast.execs = 1
             /\ fLast.statted = {AsPosix(AbsPath(n)) : n \in
                                    IF fLast.res = "ok" THEN Listdir(fFs, fPath[fLast.obj].parts) ELSE {}}
             /\ fPath[fLast.obj].parts = <<>>
                   => \A s \in fLast.statted : Len(s) = 2 /\ s[1] = "/" /\ s[2] # "/"
    /\ (fLast.op \in {"stat", "exists", "is_dir", "is_file"} /\ fLast.obj = "c")
          => fLast.execs = 0 /\ fLast.sent = {}
    /\ (fLast.op = "walk" /\ fLast.res = "ok") => fLast.execs = Cardinality(fLast.sent)

\* is_dir answers from the preloaded stat on a directory that iterdir('/')
\* returned
C31_Witness ==
    /\ fLast.op = "is_dir" /\ fLast.obj = "c" /\ fLast.res = "True" /\ fLast.execs = 0
    /\ Len(fPath["c"].parts) = 1

-----------------------------------------------------------------------------
(* Further claims about Sync (SpecSync) *)

\* C33: sync_directory(recursive=True) neither reads nor copies a file below
\* a directory under the source whose name is __pycache__ or .git, creates no
\* destination directory for such a directory or below it, and when it
\* returns it has copied or skipped every other file of the source once.
C33_ExcludedDirectoriesNotDescended ==
    (yCall.op = "sync_directory" /\ yCall.recursive) =>
        LET Pruned == {<<"__pycache__">>, <<".git">>}
            Below(p, from) == \E i \in from..Len(p) - 1 : p[i] \in Pruned
            Others == {f \in ySrc.files : /\ Len(f) > Len(yCall.src)
                                          /\ SubSeq(f, 1, Len(yCall.src)) = yCall.src
                                          /\ ~Below(f, Len(yCall.src) + 1)}
        IN  /\ \A i \in 1..Len(yLog) :
                  /\ yLog[i].op = "write_bytes" => yLog[i].from \in Others
                  /\ yLog[i].op = "mkdir" => \A k \in 1..Len(yLog[i].path) : yLog[i].path[k] \notin Pruned
            /\ \A i \in 1..Len(yPlan) :
                  /\ yPlan[i].op = "sync_file" => yPlan[i].path \in Others
                  /\ yPlan[i].op = "mkdir" => \A k \in 1..Len(yPlan[i].path) : yPlan[i].path[k] \notin Pruned
            /\ yPc = "returned" => Copied + Skipped = Cardinality(Others)

\* a source with .git/a and sub/__pycache__/b was synced and the call
\* returned with its file a copied
C33_Witness ==
    /\ yCall.op = "sync_directory" /\ yCall.recursive /\ yPc = "returned" /\ Copied >= 1
    /\ << <<"s">>, <<".git">>, <<"a">> >> \in ySrc.files
    /\ << <<"s">>, <<"sub">>, <<"__pycache__">>, <<"b">> >> \in ySrc.files

\* C38: after sync_file and remove_file calls, those that raised included,
\* the counter of copied / removed files is the number of write_bytes and
\* unlink calls that completed.
C38_CounterCountsCompletedWrites ==
    (yCall.op \in {"sync_file", "remove_file"} /\ yPc \in {"returned", "raised"}) =>
        yCount.files = Cardinality({i \in 1..Len(yLog) :
            /\ yLog[i].op \in {"write_bytes", "unlink"}
            /\ ~RemoteCall(yLog[i].fs, yLog[i].op, yLog[i].path,
                           IF yLog[i].op = "write_bytes" THEN ySrc.data[yLog[i].from] ELSE <<>>).raised})

-----------------------------------------------------------------------------
(* Further claims about the transport (Spec) *)

\* C34: a KeyboardInterrupt during the wait of exec_raw writes exactly one
\* CTRL-C to the board and is followed by one more wait: the thread writes
\* nothing else, the packet it takes from the queue is processed as the
\* response of its request, and with no packet the call ends in a timeout.
C34_InterruptForwardedOnce ==
    [][\A t \in Threads :
          /\ (pc[t] = "wait" /\ pc'[t] = "wait2")
                => (h2b' = Append(h2b, CtrlC) /\ cur'[t] = cur[t] /\ returned' = returned)
          /\ pc[t] = "wait2" => pc'[t] \in {"wait2", "idle"}
          /\ (pc[t] = "wait2" /\ pc'[t] = "idle")
                => /\ h2b' = h2b
                   /\ returned'[cur[t].id].res =
                         IF response = <<>> THEN ExecOn(NoPacket, cur[t].timeout)
                         ELSE ExecOn(Head(response).data, cur[t].timeout)
                   /\ response = <<>> =>
                         (returned'[cur[t].id].res.kind = "raise"
                          /\ returned'[cur[t].id].res.exc = Timeout)
                   /\ response # <<>> => response' = Tail(response)]_vars

\* the only request made was interrupted and ended with the traceback the
\* board printed for the interrupted program
C34_Witness ==
    /\ nextReq = 1 /\ returned[1].from = 1
    /\ returned[1].res = ExecOn(InterruptedOutput, DefaultTimeout)
    /\ returned[1].res.kind = "raise"

-----------------------------------------------------------------------------
(* Claims about stop and close (SpecFramer) *)

\* C35: stop and close write CTRL-B, after CTRL-C when interrupt is set,
\* while the reader thread still runs, and then end the thread; once it has
\* ended it reads no byte and queues no packet; after stop the port is open,
\* after close it is closed.
C35_StopAndCloseEndTheReader ==
    [][/\ kSent' # kSent
          => /\ kAlive /\ kAlive'
             /\ kSent' = kSent \o (IF kPc'.interrupt THEN <<"CTRL-C", "CTRL-B">> ELSE <<"CTRL-B">>)
       /\ (kAlive /\ ~kAlive') => (kSent # <<>> /\ kSent' = kSent)
       /\ ~kAlive => (~kAlive' /\ kRead' = kRead /\ kBuffer' = kBuffer /\ kQueue' = kQueue)
       /\ kPc'.at = "stopped" => (~kAlive' /\ kPort' = "open")
       /\ kPc'.at = "closed" => (~kAlive' /\ kPort' = "closed")]_vars

\* after stop(interrupt=True) the terminal has read bytes that follow the
\* ones the reader thread had read
C35_Witness ==
    /\ kPc = At("stopped", TRUE) /\ kPort = "open" /\ kSent = <<"CTRL-C", "CTRL-B">>
    /\ kRead > 0 /\ kTerm > 0 /\ kQueue # <<>>

-----------------------------------------------------------------------------
(* MpyPath.stat(fake_attrs) and _override_stat on one path object: SpecAttrs. *)
(* A stat record is its st_mode, st_uid and st_gid.                           *)

S_IFDIR == 16384
S_IFREG == 32768
\* 0o660
FakeMode == 432

RECURSIVE BitOr(_, _)
BitOr(a, b) ==
    IF a = 0 THEN b
    ELSE IF b = 0 THEN a
    ELSE (IF a % 2 = 1 \/ b % 2 = 1 THEN 1 ELSE 0) + 2 * BitOr(a \div 2, b \div 2)

\* no record: a missing path on the board, an empty _stat_cache
NoRecord == [st_mode |-> -1, st_uid |-> -1, st_gid |-> -1]

\* what the board prints for a file or a directory: with and without
\* permission bits, owned by 0
BoardRecords ==
    {[st_mode |-> m, st_uid |-> 0, st_gid |-> 0] :
        m \in {S_IFREG, S_IFREG + 420, S_IFREG + 432, S_IFDIR, S_IFDIR + 511}}

HostIds == [uid : {0, 1000}, gid : {0, 1000}]

\* _override_stat
override_stat(st, host) ==
    [st EXCEPT !.st_mode = BitOr(@, FakeMode), !.st_gid = host.gid, !.st_uid = host.uid]

NoAttrCall == [op |-> "none", fake_attrs |-> FALSE, res |-> "", st |-> NoRecord]

InitAttrs ==
    /\ aBoard \in BoardRecords \cup {NoRecord}
    /\ aHost \in HostIds
    /\ aCache = NoRecord
    /\ aLast = NoAttrCall
    /\ earlyIdle /\ syncIdle /\ rtcIdle /\ escIdle /\ framerIdle /\ fuseIdle

\* MpyPath.stat(fake_attrs)
StatAttrs(fake_attrs) ==
    IF aCache # NoRecord
    THEN /\ aLast' = [op |-> "stat", fake_attrs |-> fake_attrs, res |-> "ok", st |-> aCache]
         /\ UNCHANGED <<aBoard, aHost, aCache>>
    ELSE IF aBoard = NoRecord
    THEN /\ aLast' = [op |-> "stat", fake_attrs |-> fake_attrs, res |-> "FileNotFoundError",
                      st |-> NoRecord]
         /\ UNCHANGED <<aBoard, aHost, aCache>>
    ELSE LET st == IF fake_attrs THEN override_stat(aBoard, aHost) ELSE aBoard
         IN  /\ aCache' = st
             /\ aLast' = [op |-> "stat", fake_attrs |-> fake_attrs, res |-> "ok", st |-> st]
             /\ UNCHANGED <<aBoard, aHost>>

\* the object is one that iterdir of its parent returned: _with_stat(st) with
\* the stat the program printed
FromIterdir ==
    /\ aBoard # NoRecord
    /\ aCache' = aBoard
    /\ aLast' = [NoAttrCall EXCEPT !.op = "iterdir", !.res = "ok"]
    /\ UNCHANGED <<aBoard, aHost>>

\* MpyPath.write_bytes on a regular file: self._stat_cache = None
WriteAttrs ==
    /\ aBoard # NoRecord /\ BitOr(aBoard.st_mode, S_IFREG) = aBoard.st_mode
    /\ aCache' = NoRecord
    /\ aLast' = [NoAttrCall EXCEPT !.op = "write_bytes", !.res = "ok"]
    /\ UNCHANGED <<aBoard, aHost>>

NextAttrs ==
    \/ \E fake_attrs \in BOOLEAN :
          StatAttrs(fake_attrs) /\ UNCHANGED <<earlyVars, syncVars, rtcVars, escVars, framerVars, fuseVars>>
    \/ FromIterdir /\ UNCHANGED <<earlyVars, syncVars, rtcVars, escVars, framerVars, fuseVars>>
    \/ WriteAttrs /\ UNCHANGED <<earlyVars, syncVars, rtcVars, escVars, framerVars, fuseVars>>

SpecAttrs == InitAttrs /\ [][NextAttrs]_vars

\* C36: stat(fake_attrs=True) returns a record with the 0o660 bits set and
\* the uid and gid of the host process, whatever stat or iterdir came before
\* on the object; stat() without fake_attrs returns the record of the board,
\* not one that the fake attributes altered.
C36_FakeAttrsIndependentOfCache ==
    (aLast.op = "stat" /\ aLast.res = "ok") =>
        IF aLast.fake_attrs
        THEN /\ BitOr(aLast.st.st_mode, 432) = aLast.st.st_mode
             /\ aLast.st.st_uid = aHost.uid /\ aLast.st.st_gid = aHost.gid
        ELSE aLast.st = aBoard

-----------------------------------------------------------------------------
(* Further claims about write_bytes (SpecIO) *)

\* C37: a write_bytes call whose open program ran on the board has run its
\* close program when it returns or raises, also when the exec of a block
\* failed (a call that fails in the exec of the close program itself, after
\* the last block, has sent it: that case is not counted against the claim).
C37_WriteBytesClosesFile ==
    (Executed("open_wb") /\ ioPc \notin {"start", "write"})
        => (Executed("close_wb") \/ (ioPc = "failed" /\ ioPos = Len(ioData)))

-----------------------------------------------------------------------------
(* Further claims about the RTC (SpecRtc) *)

\* C39: a set_rtc with the time read_rtc returned for the subsecond s of the
\* board writes s again, for every s in 0..255; and the subsecond set_rtc
\* writes is in 0..255 for every microsecond.
C39_SubsecondConversionsAreInverse ==
    [][/\ (rPc = "read" /\ rPc' = "set" /\ rTime' = rRead) => rBoard' = rBoard
       /\ rPc' = "set" => rBoard' \in 0..255]_vars

-----------------------------------------------------------------------------
(* ReplFileTransfer (src/there/fuse_drive.py): open, create, write, flush,   *)
(* fsync and release on the files of the mounted board: SpecFuse.  FUSE      *)
(* passes to every call on a handle the path the handle was opened with.     *)

\* handles given out by one mount
MaxHandles == 2
\* bytes in a file buffer
MaxBufLen == 1

FusePaths == {"/x", "/y"}
NoFile == <<-1>>
FuseContents == SeqsUpTo({0, 1}, MaxBufLen)

\* FileBuffer(path, contents)
FileBuffer(path, contents) == [path |-> path, buffer |-> contents, modified |-> FALSE]

NoWrites == [pairs |-> {}, own |-> <<>>]

InitFuse ==
    /\ uRemote \in [FusePaths -> FuseContents \cup {NoFile}]
    /\ uFiles = <<>>
    /\ uCounter = 0
    /\ uWrites = [NoWrites EXCEPT !.own = uRemote]
    /\ earlyIdle /\ syncIdle /\ rtcIdle /\ escIdle /\ framerIdle /\ attrIdle

\* self.files[fileno] = f
WithFile(files, fileno, f) ==
    [h \in DOMAIN files \cup {fileno} |-> IF h = fileno THEN f ELSE files[h]]

\* self._remote(path).write_bytes(f.buffer), noted with the path of f
RemoteWrite(path, f) ==
    /\ uRemote' = [uRemote EXCEPT ![path] = f.buffer]
    /\ uWrites' = [pairs |-> uWrites.pairs \cup {[to |-> path, of |-> f.path]},
                   own |-> IF f.path = path THEN [uWrites.own EXCEPT ![path] = f.buffer]
                           ELSE uWrites.own]

\* open(path, flags): read_bytes raises for a missing file, after the handle
\* counter was incremented
FuseOpen(path) ==
    /\ uCounter < MaxHandles
    /\ uCounter' = uCounter + 1
    /\ uFiles' = IF uRemote[path] = NoFile THEN uFiles
                 ELSE WithFile(uFiles, uCounter, FileBuffer(path, uRemote[path]))
    /\ UNCHANGED <<uRemote, uWrites>>

\* create(path, mode)
FuseCreate(path) ==
    /\ uCounter < MaxHandles
    /\ uCounter' = uCounter + 1
    /\ uFiles' = WithFile(uFiles, uCounter, FileBuffer(path, <<>>))
    /\ RemoteWrite(path, FileBuffer(path, <<>>))

\* write(path, buf, offset, fh): buffer[offset:offset + length] = buf
FuseWrite(fh, buf, offset) ==
    /\ fh \in DOMAIN uFiles
    /\ offset <= Len(uFiles[fh].buffer) /\ offset + Len(buf) <= MaxBufLen
    /\ uFiles' = [uFiles EXCEPT ![fh].modified = TRUE,
                                ![fh].buffer = SubSeq(@, 1, offset) \o buf
                                               \o SubSeq(@, offset + Len(buf) + 1, Len(@))]
    /\ UNCHANGED <<uRemote, uCounter, uWrites>>

\* flush(path, fh)
FuseFlush(fh) ==
    /\ fh \in DOMAIN uFiles
    /\ IF uFiles[fh].modified THEN RemoteWrite(uFiles[fh].path, uFiles[fh])
       ELSE UNCHANGED <<uRemote, uWrites>>
    /\ UNCHANGED <<uFiles, uCounter>>

\* release(path, fh)
FuseRelease(fh) ==
    /\ fh \in DOMAIN uFiles
    /\ uFiles' = [h \in DOMAIN uFiles \ {fh} |-> uFiles[h]]
    /\ UNCHANGED <<uRemote, uCounter, uWrites>>

\* the loop of fsync over self.files.values(), in the order of the handles:
\* every modified buffer is written to path
RECURSIVE FsyncLoop(_, _, _, _, _)
FsyncLoop(path, files, handles, remote, writes) ==
    IF handles = {} THEN [remote |-> remote, writes |-> writes]
    ELSE LET h == CHOOSE x \in handles : \A y \in handles : x <= y
             f == files[h]
         IN  IF f.modified
             THEN FsyncLoop(path, files, handles \ {h},
                            [remote EXCEPT ![path] = f.buffer],
                            [pairs |-> writes.pairs \cup {[to |-> path, of |-> f.path]},
                             own |-> IF f.path = path THEN [writes.own EXCEPT ![path] = f.buffer]
                                     ELSE writes.own])
             ELSE FsyncLoop(path, files, handles \ {h}, remote, writes)

\* fsync(path, fdatasync, fh)
FuseFsync(fh) ==
    /\ fh \in DOMAIN uFiles
    /\ LET done == FsyncLoop(uFiles[fh].path, uFiles, DOMAIN uFiles, uRemote, uWrites)
       IN  /\ uRemote' = done.remote
           /\ uWrites' = done.writes
    /\ uFiles' = [h \in DOMAIN uFiles |-> [uFiles[h] EXCEPT !.modified = FALSE]]
    /\ UNCHANGED uCounter

NextFuse ==
    \/ \E path \in FusePaths :
          FuseOpen(path) /\ UNCHANGED <<earlyVars, syncVars, rtcVars, escVars, framerVars, attrVars>>
    \/ \E path \in FusePaths :
          FuseCreate(path) /\ UNCHANGED <<earlyVars, syncVars, rtcVars, escVars, framerVars, attrVars>>
    \/ \E fh \in 0..MaxHandles - 1, buf \in FuseContents \ {<<>>}, offset \in 0..MaxBufLen :
          FuseWrite(fh, buf, offset) /\ UNCHANGED <<earlyVars, syncVars, rtcVars, escVars, framerVars, attrVars>>
    \/ \E fh \in 0..MaxHandles - 1 :
          FuseFlush(fh) /\ UNCHANGED <<earlyVars, syncVars, rtcVars, escVars, framerVars, attrVars>>
    \/ \E fh \in 0..MaxHandles - 1 :
          FuseRelease(fh) /\ UNCHANGED <<earlyVars, syncVars, rtcVars, escVars, framerVars, attrVars>>
    \/ \E fh \in 0..MaxHandles - 1 :
          FuseFsync(fh) /\ UNCHANGED <<earlyVars, syncVars, rtcVars, escVars, framerVars, attrVars>>

SpecFuse == InitFuse /\ [][NextFuse]_vars

\* C40: flush and fsync write the buffer of an open file only to the remote
\* file it was opened or created for: every remote file holds what was last
\* written through one of its own handles, and no file received the buffer
\* of another file.
C40_BuffersGoToTheirOwnFile ==
    /\ \A w \in uWrites.pairs : w.to = w.of
    /\ \A path \in FusePaths : uRemote[path] = uWrites.own[path]

====
